---- MODULE Spec2Model ----
(***************************************************************************)
(* A model of the scholardoc-ocr pipeline: the Engine-B model cache        *)
(* (model_cache.py), the GPU->CPU conversion fallback (surya.py), the      *)
(* quality analyzer's verdict (quality.py), the cross-file batch planner   *)
(* (batch.py) and the two-phase orchestrator (pipeline.py, processor.py).  *)
(*                                                                         *)
(* Each subsystem has its own specification over the shared variable list: *)
(*   SpecCache     ModelCache.get_models / evict / TTL expiry, by threads  *)
(*   SpecCacheSeq  the same cache used by one thread, call after call      *)
(*   SpecInstance  ModelCache.get_instance called by threads               *)
(*   SpecFallback  convert_pdf_with_fallback over convert_pdf/load_models  *)
(*   SpecBatch     collect / split / map_results_to_files over page lists  *)
(*   SpecPipeline  run_pipeline: Phase-1 pool, Phase-2 batch, return       *)
(*   SpecQuality   QualityAnalyzer.analyze on texts and confidence data    *)
(*   SpecFunctions single calls of the planner, types and device functions *)
(*   SpecEvents    the phase and progress events a run sends its observer  *)
(*   SpecJobs      the async job registry of the MCP server (mcp_server.py) *)
(* A specification leaves the variables of the other subsystems unchanged. *)
(***************************************************************************)
EXTENDS Integers, Sequences, FiniteSets, TLC

\* ------------------------------------------------------------------------
\* Bounds of the model (not program constants)
\* ------------------------------------------------------------------------
NumThreads == 3

\* ------------------------------------------------------------------------
\* Shared vocabulary
\* ------------------------------------------------------------------------
NoDevice == "None"
Devices == {"cuda", "mps", "cpu"}
NoEntry == [id |-> 0, device |-> "None"]

VARIABLES
    \* ---- model cache (model_cache.py) ----
    cache,        \* the TTLCache's entry under key "models", or NoEntry
    loadTimeSet,  \* self._load_time is not None
    lockHolder,   \* thread holding self._cache_lock, 0 when free
    mpc,          \* per thread: position inside get_models / evict
    marg,         \* per thread: the device argument of the running call
    mloaded,      \* per thread: the model set its own load_models returned
    mret,         \* per thread: what get_models returned
    nextId,       \* identity of the next model set load_models creates
    stored,       \* history: the model sets inserted into the cache, in order
    disturbed,    \* history: an evict or a TTL expiry removed an entry
    loadFailed,   \* history: some load_models call raised
    loadCalls,    \* history: number of load_models invocations
    mcall,        \* history, per thread, of its current or last get_models
    mcalls,       \* per thread: get_models calls begun
    islast        \* the last is_loaded() call: its result, the entry's presence

cacheVars == <<cache, loadTimeSet, lockHolder, mpc, marg, mloaded, mret,
               nextId, stored, disturbed, loadFailed, loadCalls, mcall,
               mcalls, islast>>


\* ---- Engine-B wrapper (surya.py) ----
VARIABLES
    fcalls,   \* number of convert_pdf_with_fallback calls made so far
    fin,      \* the last call's arguments and what its collaborators did
    fres      \* the last call's outcome and effects

fallbackVars == <<fcalls, fin, fres>>

\* ---- batch planner (batch.py) over per-page results (types.py) ----
VARIABLES
    bthreshold,    \* analyzer.threshold of the run
    bpages,        \* per file: FileResult.pages, a sequence of PageResult
    flaggedPages,  \* the FlaggedPage records collect_flagged_pages returned
    batches,       \* the sub-batches split_into_batches returned
    bj,            \* number of sub-batches handled so far
    bpc,           \* "phase1", "collected", "mapping" or "done"
    lastCall,      \* the last sub-batch's Engine-B output and mapping outcome
    bhasPath,      \* per file: input_paths has an entry for it
    bcomb,         \* the last create_combined_pdf call: its list and outcome
    bfiles         \* per file: the FileResult's rolled-up engine and quality_score

batchVars == <<bthreshold, bpages, flaggedPages, batches, bj, bpc, lastCall,
               bhasPath, bcomb, bfiles>>

\* ---- orchestrator (pipeline.py) ----
VARIABLES
    pcfg,         \* PipelineConfig: force_tesseract, quality_threshold
    pin,          \* per input file: the text of each page as it stands
    wstate,       \* per file: "running", "finished" (future done), "collected"
    future,       \* per file: what future.result() gives
    results,      \* run_pipeline's `results` list
    needs_surya,  \* run_pipeline's `needs_surya` list
    disk,         \* per file: final/<stem>.pdf and final/<stem>.txt
    engineA,      \* per file: number of Tesseract runs
    engineB,      \* the (file, page) pairs handed to Engine-B
    pstage,       \* "phase1", "phase2", "surya", "summary" or "returned";
                  \* "interrupted" / "raised" after a KeyboardInterrupt
    p2,           \* Phase-2 bookkeeping
    p1snap        \* history: results and disk as Phase-1 left them

pipeVars == <<pcfg, pin, wstate, future, results, needs_surya, disk,
              engineA, engineB, pstage, p2, p1snap>>

\* ---- quality analyzer (quality.py, dictionary.py, confidence.py) ----
VARIABLES
    qin,   \* the arguments of an analyze() call and the analyzer's threshold
    qres   \* what the call returned, NoQualityResult before it

qualityVars == <<qin, qres>>

\* ---- the cache singleton (ModelCache.get_instance) ----
VARIABLES
    inst,      \* cls._instance: NoInstance or the ModelCache created
    ilock,     \* thread holding cls._lock, 0 when free
    ipc,       \* per thread: position inside get_instance
    iarg,      \* per thread: the ttl_seconds of its running call
    icalls,    \* per thread: get_instance calls begun
    ienv,      \* SCHOLARDOC_MODEL_TTL: "unset", "valid" or "invalid"
    icreated,  \* history: the instances created, with the creating call's ttl_seconds
    ireturned  \* history: the instances get_instance has returned

instVars == <<inst, ilock, ipc, iarg, icalls, ienv, icreated, ireturned>>

\* ---- single calls of the planner, types and device functions ----
VARIABLES
    fncall,   \* the function called last and its arguments, NoFnCall before
    fnret,    \* what that call returned
    environ   \* os.environ: the two Surya batch-size variables

funcVars == <<fncall, fnret, environ>>

\* ---- the progress-event channel of a run ----
VARIABLES
    elog,     \* the events the observer has received, in order
    ephase,   \* "idle", the phase that runs, "between" or "finished"
    erun,     \* files of the running phase that have not completed
    edone,    \* (phase, file, succeeded) for every file completed
    eneeds    \* files Phase-1 left for Engine-B

eventVars == <<elog, ephase, erun, edone, eneeds>>

\* ---- the async job registry of the MCP server (mcp_server.py) ----
VARIABLES
    jobs,       \* _jobs: the JobState of every job id, NoJob when it has none
    jnow,       \* time.time(), seconds since the server started
    jnext,      \* the next job id ocr_async hands out
    jfinished,  \* history: when each job completed or failed
    jresp       \* what the last tool call returned

jobVars == <<jobs, jnow, jnext, jfinished, jresp>>

vars == <<cacheVars, fallbackVars, batchVars, pipeVars, qualityVars, instVars,
          funcVars, eventVars, jobVars>>

\* What each subsystem leaves alone: the variables of the others.
notCache == <<fallbackVars, batchVars, pipeVars, qualityVars, instVars,
    funcVars, eventVars, jobVars>>
notFallback == <<cacheVars, batchVars, pipeVars, qualityVars, instVars,
    funcVars, eventVars, jobVars>>
notBatch == <<cacheVars, fallbackVars, pipeVars, qualityVars, instVars,
    funcVars, eventVars, jobVars>>
notPipe == <<cacheVars, fallbackVars, batchVars, qualityVars, instVars,
    funcVars, eventVars, jobVars>>
notQuality == <<cacheVars, fallbackVars, batchVars, pipeVars, instVars,
    funcVars, eventVars, jobVars>>
notInstance == <<cacheVars, fallbackVars, batchVars, pipeVars, qualityVars,
    funcVars, eventVars, jobVars>>
notFunctions == <<cacheVars, fallbackVars, batchVars, pipeVars, qualityVars,
    instVars, eventVars, jobVars>>
notEvents == <<cacheVars, fallbackVars, batchVars, pipeVars, qualityVars,
    instVars, funcVars, jobVars>>
notJobs == <<cacheVars, fallbackVars, batchVars, pipeVars, qualityVars,
    instVars, funcVars, eventVars>>

Threads == 1..NumThreads

\* ------------------------------------------------------------------------
\* surya.load_models: the device the models end up on
\* ------------------------------------------------------------------------
\* An explicit device is honoured; otherwise detect_device() picks one.
LoadDevices(device) == IF device # NoDevice THEN {device} ELSE Devices

\* ------------------------------------------------------------------------
\* ModelCache
\* ------------------------------------------------------------------------
\* What is remembered of one get_models call: whether the cache held an
\* entry when it began and which, whether it invoked load_models, whether an
\* eviction or expiry struck while it ran, and whether an evict() returned
\* while its load was in flight.
NoCallHistory ==
    [had |-> FALSE, entry |-> NoEntry, loaded |-> FALSE, struck |-> FALSE,
     evicted |-> FALSE]
NoIsLoaded == [called |-> FALSE, ret |-> FALSE, present |-> FALSE]

\* A thread is inside get_models.
InCall(t) == mpc[t] \notin {"idle", "done", "raised"}

\* Thread t is in load_models, or has its load in hand and not yet stored.
LoadInFlight(t) == mpc[t] \in {"load", "store_check"}

Strike ==
    [t \in Threads |-> IF InCall(t) THEN [mcall[t] EXCEPT !.struck = TRUE]
                       ELSE mcall[t]]

CacheInit ==
    /\ cache = NoEntry
    /\ loadTimeSet = FALSE
    /\ lockHolder = 0
    /\ mpc = [t \in Threads |-> "idle"]
    /\ marg = [t \in Threads |-> NoDevice]
    /\ mloaded = [t \in Threads |-> NoEntry]
    /\ mret = [t \in Threads |-> NoEntry]
    /\ nextId = 1
    /\ stored = <<>>
    /\ disturbed = FALSE
    /\ loadFailed = FALSE
    /\ loadCalls = 0
    /\ mcall = [t \in Threads |-> NoCallHistory]
    /\ mcalls = [t \in Threads |-> 0]
    /\ islast = NoIsLoaded

\* `cache_key in self._cache`
InCache == cache # NoEntry

\* A caller enters get_models(device).
GetModelsCall(t) ==
    /\ mpc[t] = "idle"
    /\ \E d \in {NoDevice, "cpu"} : marg' = [marg EXCEPT ![t] = d]
    /\ mpc' = [mpc EXCEPT ![t] = "fast_check"]
    /\ UNCHANGED <<cache, loadTimeSet, lockHolder, mloaded, mret, nextId,
                   stored, disturbed, loadFailed>>
    /\ mcall' = [mcall EXCEPT ![t] = [had |-> InCache, entry |-> cache,
                                       loaded |-> FALSE, struck |-> FALSE,
                                       evicted |-> FALSE]]
    /\ mcalls' = [mcalls EXCEPT ![t] = @ + 1]
    /\ UNCHANGED <<loadCalls, islast>>
    /\ UNCHANGED notCache

\* Fast path, `with self._cache_lock: if cache_key in self._cache:`.
\* On a miss the lock is released at once; on a hit it stays held for the read.
GetModelsFastCheck(t) ==
    /\ mpc[t] = "fast_check"
    /\ lockHolder = 0
    /\ IF InCache
         THEN /\ lockHolder' = t
              /\ mpc' = [mpc EXCEPT ![t] = "fast_read"]
         ELSE /\ lockHolder' = 0
              /\ mpc' = [mpc EXCEPT ![t] = "load"]
    /\ UNCHANGED <<cache, loadTimeSet, marg, mloaded, mret, nextId, stored,
                   disturbed, loadFailed>>
    /\ UNCHANGED <<loadCalls, mcall, mcalls, islast>>
    /\ UNCHANGED notCache

\* `cached = self._cache[cache_key]; return cached` (KeyError if the entry
\* expired since the membership test).
GetModelsFastRead(t) ==
    /\ mpc[t] = "fast_read"
    /\ lockHolder = t
    /\ IF InCache
         THEN /\ mret' = [mret EXCEPT ![t] = cache]
              /\ mpc' = [mpc EXCEPT ![t] = "done"]
         ELSE /\ mret' = mret
              /\ mpc' = [mpc EXCEPT ![t] = "raised"]
    /\ lockHolder' = 0
    /\ UNCHANGED <<cache, loadTimeSet, marg, mloaded, nextId, stored,
                   disturbed, loadFailed>>
    /\ UNCHANGED <<loadCalls, mcall, mcalls, islast>>
    /\ UNCHANGED notCache

\* A load that leaves the caller where it was, to load once more.
GetModelsLoadAgain(t) ==
    /\ mpc[t] = "load"
    /\ \/ \E dev \in LoadDevices(marg[t]) :
            /\ mloaded' = [mloaded EXCEPT ![t] = [id |-> nextId, device |-> dev]]
            /\ nextId' = nextId + 1
            /\ mpc' = [mpc EXCEPT ![t] = IF loadCalls < NumThreads + 1
                                            THEN "load" ELSE "store_check"]
            /\ UNCHANGED loadFailed
       \/ /\ mpc' = [mpc EXCEPT ![t] = "raised"]
          /\ loadFailed' = TRUE
          /\ UNCHANGED <<mloaded, nextId>>
    /\ UNCHANGED <<cache, loadTimeSet, lockHolder, marg, mret, stored, disturbed>>
    /\ loadCalls' = loadCalls + 1
    /\ mcall' = [mcall EXCEPT ![t].loaded = TRUE]
    /\ UNCHANGED <<mcalls, islast>>
    /\ UNCHANGED notCache

\* `surya.load_models(device)` outside the lock: a fresh model set, or an error.
GetModelsLoad(t) ==
    /\ mpc[t] = "load"
    /\ \/ \E dev \in LoadDevices(marg[t]) :
            /\ mloaded' = [mloaded EXCEPT ![t] = [id |-> nextId, device |-> dev]]
            /\ nextId' = nextId + 1
            /\ mpc' = [mpc EXCEPT ![t] = "store_check"]
            /\ UNCHANGED loadFailed
       \/ /\ mpc' = [mpc EXCEPT ![t] = "raised"]
          /\ loadFailed' = TRUE
          /\ UNCHANGED <<mloaded, nextId>>
    /\ UNCHANGED <<cache, loadTimeSet, lockHolder, marg, mret, stored, disturbed>>
    /\ loadCalls' = loadCalls + 1
    /\ mcall' = [mcall EXCEPT ![t].loaded = TRUE]
    /\ UNCHANGED <<mcalls, islast>>
    /\ UNCHANGED notCache

\* The store decision without the second membership test: every load is
\* inserted, overwriting what another thread cached.
StoreOursAlways(present) == TRUE

\* The store decision of get_models: insert our load iff the key is absent.
StoreOurs(present) == ~present

\* Second critical section: `if cache_key not in self._cache:` insert our
\* load and return it, else keep the lock for the read of the cached one.
GetModelsStoreCheck(t) ==
    /\ mpc[t] = "store_check"
    /\ lockHolder = 0
    /\ IF StoreOurs(InCache)
         THEN /\ cache' = mloaded[t]
              /\ loadTimeSet' = TRUE
              /\ stored' = Append(stored, mloaded[t])
              /\ mret' = [mret EXCEPT ![t] = mloaded[t]]
              /\ mpc' = [mpc EXCEPT ![t] = "done"]
              /\ lockHolder' = 0
         ELSE /\ lockHolder' = t
              /\ mpc' = [mpc EXCEPT ![t] = "store_read"]
              /\ UNCHANGED <<cache, loadTimeSet, stored, mret>>
    /\ UNCHANGED <<marg, mloaded, nextId, disturbed, loadFailed>>
    /\ UNCHANGED <<loadCalls, mcall, mcalls, islast>>
    /\ UNCHANGED notCache

\* `return self._cache[cache_key]`: our own load is discarded.
GetModelsStoreRead(t) ==
    /\ mpc[t] = "store_read"
    /\ lockHolder = t
    /\ IF InCache
         THEN /\ mret' = [mret EXCEPT ![t] = cache]
              /\ mpc' = [mpc EXCEPT ![t] = "done"]
         ELSE /\ mret' = mret
              /\ mpc' = [mpc EXCEPT ![t] = "raised"]
    /\ lockHolder' = 0
    /\ UNCHANGED <<cache, loadTimeSet, marg, mloaded, nextId, stored,
                   disturbed, loadFailed>>
    /\ UNCHANGED <<loadCalls, mcall, mcalls, islast>>
    /\ UNCHANGED notCache

\* evict(): under the lock, delete the entry if present (then GPU cleanup,
\* which touches no cache state).
Evict ==
    /\ lockHolder = 0
    /\ IF InCache
         THEN /\ cache' = NoEntry
              /\ loadTimeSet' = FALSE
              /\ disturbed' = TRUE
         ELSE UNCHANGED <<cache, loadTimeSet, disturbed>>
    /\ UNCHANGED <<lockHolder, mpc, marg, mloaded, mret, nextId, stored, loadFailed>>
    /\ mcall' = [t \in Threads |->
                    IF InCall(t)
                      THEN [mcall[t] EXCEPT !.struck = @ \/ InCache,
                                            !.evicted = @ \/ LoadInFlight(t)]
                      ELSE mcall[t]]
    /\ UNCHANGED <<loadCalls, mcalls, islast>>
    /\ UNCHANGED notCache

\* The TTL runs out: TTLCache stops reporting the entry. Time passes whether
\* or not the lock is held.
Expire ==
    /\ InCache
    /\ cache' = NoEntry
    /\ disturbed' = TRUE
    /\ UNCHANGED <<loadTimeSet, lockHolder, mpc, marg, mloaded, mret, nextId,
                   stored, loadFailed>>
    /\ mcall' = Strike
    /\ UNCHANGED <<loadCalls, mcalls, islast>>
    /\ UNCHANGED notCache

\* ---- ModelCache.get_instance ----
MaxInstanceCalls == 2
NoInstance == [id |-> 0, ttl |-> 0]

\* ttl_seconds as callers pass it (1800.0 is the default), and the value a
\* well-formed SCHOLARDOC_MODEL_TTL holds.
TtlArgs == {1800, 60}
EnvTtl == 600

\* The TTL a new instance gets: float(env_ttl) when the variable is set and
\* parses, else the caller's ttl_seconds.
EffectiveTtl(ttl_seconds, env) == IF env = "valid" THEN EnvTtl ELSE ttl_seconds

InstanceInit ==
    /\ inst = NoInstance
    /\ ilock = 0
    /\ ipc = [t \in Threads |-> "idle"]
    /\ iarg = [t \in Threads |-> 1800]
    /\ icalls = [t \in Threads |-> 0]
    /\ ienv \in {"unset", "valid", "invalid"}
    /\ icreated = <<>>
    /\ ireturned = {}

InstanceIdle ==
    /\ inst = NoInstance
    /\ ilock = 0
    /\ ipc = [t \in Threads |-> "idle"]
    /\ iarg = [t \in Threads |-> 1800]
    /\ icalls = [t \in Threads |-> 0]
    /\ ienv = "unset"
    /\ icreated = <<>>
    /\ ireturned = {}

\* A caller enters get_instance(ttl_seconds).
GetInstanceCall(t) ==
    /\ ipc[t] \in {"idle", "done"}
    /\ icalls[t] < MaxInstanceCalls
    /\ \E ttl \in TtlArgs : iarg' = [iarg EXCEPT ![t] = ttl]
    /\ icalls' = [icalls EXCEPT ![t] = @ + 1]
    /\ ipc' = [ipc EXCEPT ![t] = "outer_check"]
    /\ UNCHANGED <<inst, ilock, ienv, icreated, ireturned>>
    /\ UNCHANGED notInstance

\* `if cls._instance is None:` read without the lock.
GetInstanceOuterCheck(t) ==
    /\ ipc[t] = "outer_check"
    /\ ipc' = [ipc EXCEPT ![t] = IF inst = NoInstance THEN "acquire" ELSE "return"]
    /\ UNCHANGED <<inst, ilock, iarg, icalls, ienv, icreated, ireturned>>
    /\ UNCHANGED notInstance

\* `with cls._lock:`
GetInstanceAcquire(t) ==
    /\ ipc[t] = "acquire"
    /\ ilock = 0
    /\ ilock' = t
    /\ ipc' = [ipc EXCEPT ![t] = "inner_check"]
    /\ UNCHANGED <<inst, iarg, icalls, ienv, icreated, ireturned>>
    /\ UNCHANGED notInstance

\* The locked section without its second test: whoever gets the lock creates.
CreatesInstanceAlways(present) == TRUE

\* The second `if cls._instance is None:` under the lock.
CreatesInstance(present) == ~present

\* The locked section: create the instance if there is still none, with the
\* TTL of this call or of the environment; the lock is released.
GetInstanceInner(t) ==
    /\ ipc[t] = "inner_check"
    /\ ilock = t
    /\ IF CreatesInstance(inst # NoInstance)
         THEN /\ inst' = [id |-> Len(icreated) + 1,
                          ttl |-> EffectiveTtl(iarg[t], ienv)]
              /\ icreated' = Append(icreated, [instance |-> inst', arg |-> iarg[t]])
         ELSE UNCHANGED <<inst, icreated>>
    /\ ilock' = 0
    /\ ipc' = [ipc EXCEPT ![t] = "return"]
    /\ UNCHANGED <<iarg, icalls, ienv, ireturned>>
    /\ UNCHANGED notInstance

\* `return cls._instance`
GetInstanceReturn(t) ==
    /\ ipc[t] = "return"
    /\ ireturned' = ireturned \cup {inst}
    /\ ipc' = [ipc EXCEPT ![t] = "done"]
    /\ UNCHANGED <<inst, ilock, iarg, icalls, ienv, icreated>>
    /\ UNCHANGED notInstance

\* ---- one thread using the cache over and over ----
MaxSeqCalls == 3
SeqThread == 1

\* get_models has returned or raised; the caller carries on and may call
\* the cache again.
CallReturns(t) ==
    /\ mpc[t] \in {"done", "raised"}
    /\ mcalls[t] < MaxSeqCalls
    /\ mpc' = [mpc EXCEPT ![t] = "idle"]
    /\ UNCHANGED <<cache, loadTimeSet, lockHolder, marg, mloaded, mret, nextId,
                   stored, disturbed, loadFailed, loadCalls, mcall, mcalls,
                   islast>>
    /\ UNCHANGED notCache

\* evict() called by the thread itself, between its get_models calls.
EvictBetweenCalls ==
    /\ mpc[SeqThread] = "idle"
    /\ Evict

\* is_loaded() answering from _load_time, which expiry does not reset.
IsLoadedFromLoadTime(present, load_time_set) == load_time_set

\* is_loaded(): `"models" in self._cache`
IsLoadedResult(present, load_time_set) == present

\* is_loaded() called by the thread between its get_models calls.
IsLoaded ==
    /\ mpc[SeqThread] = "idle"
    /\ lockHolder = 0
    /\ islast' = [called |-> TRUE,
                  ret |-> IsLoadedResult(InCache, loadTimeSet),
                  present |-> cache # NoEntry]
    /\ UNCHANGED <<cache, loadTimeSet, lockHolder, mpc, marg, mloaded, mret,
                   nextId, stored, disturbed, loadFailed, loadCalls, mcall,
                   mcalls>>
    /\ UNCHANGED notCache

\* ------------------------------------------------------------------------
\* Exceptions (exceptions.py and the built-in hierarchy)
\* ------------------------------------------------------------------------
ExcParent ==
    [SuryaError |-> "OCRError", OCRError |-> "ScholarDocError",
     ScholarDocError |-> "Exception", RuntimeError |-> "Exception",
     ValueError |-> "Exception", ImportError |-> "Exception",
     Exception |-> "BaseException", KeyboardInterrupt |-> "BaseException",
     BaseException |-> "object"]

\* isinstance(<exception of class c>, target)
RECURSIVE IsInstance(_, _)
IsInstance(c, target) ==
    IF c = target THEN TRUE
    ELSE IF c = "object" THEN FALSE
    ELSE IsInstance(ExcParent[c], target)

NoExc == [class |-> "none", msg |-> "none"]

\* ------------------------------------------------------------------------
\* Engine-B wrapper (surya.py): convert_pdf and convert_pdf_with_fallback
\* ------------------------------------------------------------------------

\* How many calls of convert_pdf_with_fallback a behaviour makes.
MaxFallbackCalls == 2

\* What marker's PdfConverter does with one input on one model set: it
\* renders markdown, it raises, or marker cannot be imported at all.
Markdowns == {"md_a", "md_b"}
ConverterOutcomes ==
    [kind : {"ok"}, markdown : Markdowns, class : {"none"}]
    \cup [kind : {"raise"}, markdown : {"none"},
          class : {"RuntimeError", "ValueError", "KeyboardInterrupt"}]
    \cup [kind : {"no_marker"}, markdown : {"none"}, class : {"ImportError"}]

\* convert_pdf: the markdown, or a SuryaError wrapping whatever `Exception`
\* the converter raised; anything that is no `Exception` passes through.
ConvertPdf(out) ==
    IF out.kind = "no_marker"
      THEN [ok |-> FALSE, markdown |-> "none",
            exc |-> [class |-> "SuryaError", msg |-> "marker_not_installed"]]
    ELSE IF out.kind = "ok"
      THEN [ok |-> TRUE, markdown |-> out.markdown, exc |-> NoExc]
    ELSE IF IsInstance(out.class, "Exception")
      THEN [ok |-> FALSE, markdown |-> "none",
            exc |-> [class |-> "SuryaError", msg |-> "conversion_failed"]]
    ELSE [ok |-> FALSE, markdown |-> "none",
          exc |-> [class |-> out.class, msg |-> "converter"]]

\* load_models(device="cpu") inside the fallback: a model set or SuryaError.
LoadOutcomes == {"ok", "raise"}

FallbackResult(kind, markdown, fallback, exc, converts, loads, clears) ==
    [kind |-> kind, markdown |-> markdown, fallback |-> fallback, exc |-> exc,
     convertCalls |-> converts, cpuLoads |-> loads, cacheClears |-> clears]

NoFallbackResult == FallbackResult("none", "none", FALSE, NoExc, 0, 0, 0)

\* convert_pdf_with_fallback(input, models, config, page_range, strict_gpu),
\* given what the first conversion, the CPU model load and the second
\* conversion do.
ConvertPdfWithFallback(strict_gpu, out1, loadOut, out2) ==
    LET r1 == ConvertPdf(out1)
        r2 == ConvertPdf(out2)
    IN  IF r1.ok
          THEN FallbackResult("returned", r1.markdown, FALSE, NoExc, 1, 0, 0)
        ELSE IF ~IsInstance(r1.exc.class, "RuntimeError")
          \* not caught by `except RuntimeError`: leaves the function
          THEN FallbackResult("raised", "none", FALSE, r1.exc, 1, 0, 0)
        ELSE IF strict_gpu
          THEN FallbackResult("raised", "none", FALSE,
                   [class |-> "SuryaError", msg |-> "gpu_failed_strict_gpu"],
                   1, 0, 0)
        ELSE IF loadOut = "raise"
          THEN FallbackResult("raised", "none", FALSE,
                   [class |-> "SuryaError", msg |-> "model_load_failed"],
                   1, 1, 1)
        ELSE IF r2.ok
          THEN FallbackResult("returned", r2.markdown, TRUE, NoExc, 2, 1, 1)
        ELSE FallbackResult("raised", "none", FALSE, r2.exc, 2, 1, 1)

FallbackInit ==
    /\ fcalls = 0
    /\ fin = [strict_gpu |-> FALSE,
              out1 |-> [kind |-> "ok", markdown |-> "md_a", class |-> "none"],
              loadOut |-> "ok",
              out2 |-> [kind |-> "ok", markdown |-> "md_a", class |-> "none"]]
    /\ fres = NoFallbackResult

\* One call of convert_pdf_with_fallback, start to finish.
CallConvertWithFallback ==
    /\ fcalls < MaxFallbackCalls
    /\ \E strict \in BOOLEAN, o1 \in ConverterOutcomes,
          lo \in LoadOutcomes, o2 \in ConverterOutcomes :
          /\ fin' = [strict_gpu |-> strict, out1 |-> o1, loadOut |-> lo, out2 |-> o2]
          /\ fres' = ConvertPdfWithFallback(strict, o1, lo, o2)
    /\ fcalls' = fcalls + 1
    /\ UNCHANGED notFallback

\* ------------------------------------------------------------------------
\* Texts and quality signals (quality.py, dictionary.py)
\* ------------------------------------------------------------------------
\* Scores are fixed-point: Scale stands for 1.0.
Scale == 10000

Max2(a, b) == IF a >= b THEN a ELSE b
Min2(a, b) == IF a <= b THEN a ELSE b

\* A text is a sequence of symbols: word runs, named by the kind of words
\* they hold, and the two page separators Engine-B's markdown may contain,
\* "HR" (a line of three or more hyphens) and "NL3" (three or more newlines).
Separators == {"HR", "NL3"}

\* What a run of words contributes to the signals' counters:
\*   long       the run alone has at least 100 characters ("scrap" is a
\*              few garbled words, short of that)
\*   total      whitespace-separated tokens (len(text.split()))
\*   garbled    tokens the garbled patterns hit
\*   scored     tokens the dictionary signal scores (>= 3 chars, a letter)
\*   known      scored tokens found in the word list
\*   structured scored tokens unknown but structurally valid
WordRuns ==
    [clean   |-> [long |-> TRUE, total |-> 20, garbled |-> 0,
                  scored |-> 10, known |-> 10, structured |-> 0],
     fair    |-> [long |-> TRUE, total |-> 20, garbled |-> 2,
                  scored |-> 10, known |-> 8, structured |-> 0],
     unknown |-> [long |-> TRUE, total |-> 20, garbled |-> 0,
                  scored |-> 10, known |-> 2, structured |-> 2],
     garbled |-> [long |-> TRUE, total |-> 20, garbled |-> 8,
                  scored |-> 10, known |-> 4, structured |-> 2],
     scrap   |-> [long |-> FALSE, total |-> 3, garbled |-> 2,
                  scored |-> 2, known |-> 0, structured |-> 0],
     HR      |-> [long |-> FALSE, total |-> 1, garbled |-> 0,
                  scored |-> 0, known |-> 0, structured |-> 0],
     NL3     |-> [long |-> FALSE, total |-> 0, garbled |-> 0,
                  scored |-> 0, known |-> 0, structured |-> 0]]

EmptyProfile ==
    [long |-> FALSE, total |-> 0, garbled |-> 0,
     scored |-> 0, known |-> 0, structured |-> 0]

\* The counters of a whole text: those of its symbols, added up.
RECURSIVE Profile(_)
Profile(text) ==
    IF text = <<>> THEN EmptyProfile
    ELSE LET h == WordRuns[Head(text)]
             r == Profile(Tail(text))
         IN  [long |-> h.long \/ r.long,
              total |-> h.total + r.total,
              garbled |-> h.garbled + r.garbled,
              scored |-> h.scored + r.scored,
              known |-> h.known + r.known,
              structured |-> h.structured + r.structured]

\* _GarbledSignal.score: 1.0 for a text under 100 characters or without
\* words, else max(0, 1 - 2 * garbled / total).
GarbledScore(text) ==
    LET p == Profile(text)
    IN  IF ~p.long \/ p.total = 0 THEN Scale
        ELSE Max2(0, Scale - (2 * Scale * p.garbled) \div p.total)

\* The dictionary signal with nothing to score counted as a failure.
DictionaryScoreEmptyZero(text) ==
    LET p == Profile(text)
    IN  IF p.scored = 0 THEN 0
        ELSE Min2(Scale, Max2(0,
                 (Scale * (2 * p.known + p.structured)) \div (2 * p.scored)))

\* DictionarySignal.score: 1.0 when nothing is scored, else
\* (known + 0.5 * structured) / scored, clipped to [0, 1].
DictionaryScore(text) ==
    LET p == Profile(text)
    IN  IF p.scored = 0 THEN Scale
        ELSE Min2(Scale, Max2(0,
                 (Scale * (2 * p.known + p.structured)) \div (2 * p.scored)))

\* ------------------------------------------------------------------------
\* QualityAnalyzer (quality.py)
\* ------------------------------------------------------------------------
\* signal_floors defaults
FloorConfidence == 3000
FloorGarbled == 5000
FloorDictionary == 4000

\* No confidence data was passed to analyze().
NoConfidence == -1

\* QualityAnalyzer._combine: weighted mean over the signals present.
Combine(g, d, conf) ==
    IF conf # NoConfidence
      THEN (40 * g + 30 * d + 30 * conf) \div 100
      ELSE (55 * g + 45 * d) \div 100

\* The floor test without the dictionary signal.
FloorFailNoDictionary(g, d, conf) ==
    \/ g < FloorGarbled
    \/ (conf # NoConfidence /\ conf < FloorConfidence)

\* `floor_fail` of analyze(): some evaluated signal is under its floor.
FloorFail(g, d, conf) ==
    \/ g < FloorGarbled
    \/ d < FloorDictionary
    \/ (conf # NoConfidence /\ conf < FloorConfidence)

\* QualityAnalyzer.analyze(text, confidence_data): composite score, with the
\* confidence short-circuits, and the flagged verdict.
Analyze(text, conf, threshold) ==
    LET g == GarbledScore(text)
        d == DictionaryScore(text)
        c0 == Combine(g, d, conf)
        c == IF conf # NoConfidence /\ conf > 9500 THEN Max2(c0, 9000)
             ELSE IF conf # NoConfidence /\ conf < 2000 THEN Min2(c0, 3000)
             ELSE c0
    IN  [score |-> c,
         flagged |-> (c < threshold \/ FloorFail(g, d, conf)),
         floor_fail |-> FloorFail(g, d, conf)]

\* QualityAnalyzer.__init__'s default threshold
DefaultThreshold == 8500

\* The thresholds an analyzer may be configured with.
Thresholds == {6000, DefaultThreshold}

\* Word-level confidence data as Tesseract reports it: per word its conf
\* (0..100, or -1) and the length of its text (0 for a blank text).
MaxConfWords == 2
ConfWords == [conf : {-1, 10, 25, 98}, len : {0, 4}]
ConfidenceData ==
    [given : {FALSE}, words : {<<>>}]
    \cup [given : {TRUE},
          words : UNION {[1..k -> ConfWords] : k \in 0..MaxConfWords}]

RECURSIVE WeightedConf(_)
WeightedConf(ws) ==
    IF ws = <<>> THEN [sum |-> 0, weight |-> 0]
    ELSE LET r == WeightedConf(Tail(ws))
             w == Head(ws)
         IN  IF w.conf > 0 /\ w.len > 0
               THEN [sum |-> r.sum + w.conf * Max2(1, w.len),
                     weight |-> r.weight + Max2(1, w.len)]
               ELSE r

\* ConfidenceSignal.score_from_data: 0.5 without a valid word, else the
\* length-weighted mean confidence over 100.
ScoreFromData(words) ==
    LET w == WeightedConf(words)
    IN  IF w.weight = 0 THEN Scale \div 2
        ELSE (w.sum * (Scale \div 100)) \div w.weight

\* analyze(text, confidence_data) with the data as passed, None included.
AnalyzeWithData(text, data, threshold) ==
    Analyze(text, IF data.given THEN ScoreFromData(data.words) ELSE NoConfidence,
            threshold)

MaxTextLen == 2
TextSymbols == {"clean", "fair", "unknown", "garbled", "scrap", "NL3"}
AnalyzedTexts == UNION {[1..k -> TextSymbols] : k \in 0..MaxTextLen}

NoQualityResult == [score |-> -1, flagged |-> FALSE, floor_fail |-> FALSE]

QualityInit ==
    /\ qin \in [text : AnalyzedTexts, data : ConfidenceData, threshold : Thresholds]
    /\ qres = NoQualityResult

QualityIdle ==
    /\ qin = [text |-> <<>>, data |-> [given |-> FALSE, words |-> <<>>],
              threshold |-> DefaultThreshold]
    /\ qres = NoQualityResult

\* One call of QualityAnalyzer.analyze.
CallAnalyze ==
    /\ qres = NoQualityResult
    /\ qres' = AnalyzeWithData(qin.text, qin.data, qin.threshold)
    /\ UNCHANGED qin
    /\ UNCHANGED notQuality

\* ------------------------------------------------------------------------
\* Batch planner (batch.py) over per-page results (types.py)
\* ------------------------------------------------------------------------

NumFiles == 2
PagesPerFile == 2
MaxBlobLen == 3

BatchFiles == 1..NumFiles

\* Page texts Phase-1 may leave behind, and the markdown Engine-B may return
\* for a sub-batch of n pages: any sequence of at most n + 1 (and at most
\* MaxBlobLen) word runs and separators in which a newline run is one symbol.
Phase1Texts == {<<"clean">>, <<"garbled">>}
BlobSymbols == {"clean", "unknown", "HR", "NL3"}
Blobs(n) ==
    {b \in UNION {[1..k -> BlobSymbols] : k \in 0..Min2(n + 1, MaxBlobLen)} :
        \A i \in 1..(Len(b) - 1) : ~(b[i] = "NL3" /\ b[i + 1] = "NL3")}

\* PageResult (types.py)
PageResult(n, status, score, engine, flagged, text) ==
    [page_number |-> n, status |-> status, quality_score |-> score,
     engine |-> engine, flagged |-> flagged, text |-> text]

\* OCREngine (types.py)
Engines == {"tesseract", "surya", "existing", "mixed", "none"}

\* compute_engine_from_pages counting NONE as one more engine.
ComputeEngineFromPagesCountingNone(pages) ==
    LET engines == {pages[i].engine : i \in 1..Len(pages)}
    IN  IF engines = {} \/ engines = {"none"} THEN "none"
        ELSE IF engines = {"tesseract"} THEN "tesseract"
        ELSE IF engines = {"surya"} THEN "surya"
        ELSE IF engines = {"existing"} THEN "existing"
        ELSE "mixed"

\* compute_engine_from_pages reporting the engine of the first page.
ComputeEngineFromFirstPage(pages) ==
    IF pages = <<>> THEN "none" ELSE pages[1].engine

\* compute_engine_from_pages (types.py)
ComputeEngineFromPages(pages) ==
    LET engines == {pages[i].engine : i \in 1..Len(pages)} \ {"none"}
    IN  IF engines = {} THEN "none"
        ELSE IF engines = {"tesseract"} THEN "tesseract"
        ELSE IF engines = {"surya"} THEN "surya"
        ELSE IF engines = {"existing"} THEN "existing"
        ELSE "mixed"

\* Phase-1 page construction: a page built from a text and its analysis,
\* flagged as the analyzer says and FLAGGED / GOOD accordingly.
Phase1Page(n, text, engine, threshold) ==
    LET r == Analyze(text, NoConfidence, threshold)
    IN  PageResult(n, IF r.flagged THEN "flagged" ELSE "good", r.score,
                   engine, r.flagged, text)

\* The pages of one file after Phase-1: EXISTING when nothing was flagged on
\* the extracted text, else Engine-A's.
Phase1Pages(texts, threshold) ==
    LET anyFlagged == \E i \in 1..Len(texts) :
                         Analyze(texts[i], NoConfidence, threshold).flagged
        engine == IF anyFlagged THEN "tesseract" ELSE "existing"
    IN  [i \in 1..Len(texts) |-> Phase1Page(i - 1, texts[i], engine, threshold)]

\* A FlaggedPage numbered by its page instead of its place in the list.
FlaggedPageIndexedByPage(file, n, idx) ==
    [file |-> file, page_number |-> n, input_path |-> file, batch_index |-> n]

FlaggedPage(file, n, idx) ==
    [file |-> file, page_number |-> n, input_path |-> file, batch_index |-> idx]

\* FileResult.flagged_pages: the flagged pages, in page order.
RECURSIVE FlaggedOf(_)
FlaggedOf(pages) ==
    IF pages = <<>> THEN <<>>
    ELSE (IF Head(pages).flagged THEN <<Head(pages)>> ELSE <<>>)
         \o FlaggedOf(Tail(pages))

\* The inner loop of collect_flagged_pages for one file: a record per
\* flagged page, batch_index = len(pages) at the time of the append.
RECURSIVE AppendFlagged(_, _, _)
AppendFlagged(acc, file, fl) ==
    IF fl = <<>> THEN acc
    ELSE AppendFlagged(
             Append(acc, FlaggedPage(file, Head(fl).page_number, Len(acc))),
             file, Tail(fl))

\* collect_flagged_pages(file_results, input_paths): files in the order
\* given; a file without an input path is skipped.
RECURSIVE CollectFrom(_, _, _, _)
CollectFrom(acc, order, pages, hasPath) ==
    IF order = <<>> THEN acc
    ELSE LET f == Head(order)
         IN  CollectFrom(
                 IF hasPath[f] THEN AppendFlagged(acc, f, FlaggedOf(pages[f]))
                 ELSE acc,
                 Tail(order), pages, hasPath)

CollectFlaggedPages(order, pages, hasPath) ==
    CollectFrom(<<>>, order, pages, hasPath)

\* compute_safe_batch_size; memory in tenths of a GB, so that
\* int(available * 0.5 / 0.7) is tenths \div 14.
CpuBatchCap == 32
GpuBatchCap == 100
\* compute_safe_batch_size without the upper limit of 100 on a GPU.
ComputeSafeBatchSizeUncapped(total_pages, availTenths, device) ==
    IF total_pages <= 0 THEN 0
    ELSE IF device = "cpu" THEN Min2(total_pages, CpuBatchCap)
    ELSE Max2(1, Min2(total_pages, availTenths \div 14))

ComputeSafeBatchSize(total_pages, availTenths, device) ==
    IF total_pages <= 0 THEN 0
    ELSE IF device = "cpu" THEN Min2(total_pages, CpuBatchCap)
    ELSE Max2(1, Min2(Min2(total_pages, availTenths \div 14), GpuBatchCap))

\* split_into_batches: the ordered list cut into chunks of the safe batch
\* size, every record kept as it is.
RECURSIVE Chunks(_, _)
Chunks(fps, k) ==
    IF fps = <<>> THEN <<>>
    ELSE IF Len(fps) <= k THEN <<fps>>
    ELSE <<SubSeq(fps, 1, k)>> \o Chunks(SubSeq(fps, k + 1, Len(fps)), k)

\* split_into_batches numbering the records of every sub-batch from 0.
SplitIntoBatchesReindexed(fps, availTenths, device) ==
    IF fps = <<>> THEN <<>>
    ELSE LET chunks == Chunks(fps, ComputeSafeBatchSize(Len(fps), availTenths, device))
         IN  [b \in 1..Len(chunks) |->
                 [i \in 1..Len(chunks[b]) |->
                     [chunks[b][i] EXCEPT !.batch_index = i - 1]]]

SplitIntoBatches(fps, availTenths, device) ==
    IF fps = <<>> THEN <<>>
    ELSE Chunks(fps, ComputeSafeBatchSize(Len(fps), availTenths, device))

\* sorted(flagged_pages, key=lambda p: p.batch_index): stable, ascending.
RECURSIVE InsertByBatchIndex(_, _)
InsertByBatchIndex(sorted, fp) ==
    IF sorted = <<>> THEN <<fp>>
    ELSE IF fp.batch_index < Head(sorted).batch_index THEN <<fp>> \o sorted
    ELSE <<Head(sorted)>> \o InsertByBatchIndex(Tail(sorted), fp)

RECURSIVE SortedByBatchIndex(_)
SortedByBatchIndex(fps) ==
    IF fps = <<>> THEN <<>>
    ELSE InsertByBatchIndex(SortedByBatchIndex(SubSeq(fps, 1, Len(fps) - 1)),
                            fps[Len(fps)])

\* The combined input with its pages in the order the list came in.
CombinedPagesUnsorted(fps) ==
    [i \in 1..Len(fps) |-> <<fps[i].input_path, fps[i].page_number>>]

\* The page sequence create_combined_pdf inserts: the source page of every
\* record, in the sorted order.
CombinedPages(fps) ==
    LET sorted_pages == SortedByBatchIndex(fps)
    IN  [i \in 1..Len(fps) |->
            <<sorted_pages[i].input_path, sorted_pages[i].page_number>>]

\* create_combined_pdf(flagged_pages, output_path): nothing for an empty
\* list; an unreadable source re-raises before anything is saved.
CreateCombinedPdf(fps, readable) ==
    IF fps = <<>> THEN [written |-> FALSE, raised |-> FALSE, pages |-> <<>>]
    ELSE IF ~readable THEN [written |-> FALSE, raised |-> TRUE, pages |-> <<>>]
    ELSE [written |-> TRUE, raised |-> FALSE, pages |-> CombinedPages(fps)]

NoCombined ==
    [called |-> FALSE, batch |-> 0, given |-> <<>>,
     out |-> [written |-> FALSE, raised |-> FALSE, pages |-> <<>>]]

\* The orders a list may be passed in.
ListOrders(q) ==
    {[i \in 1..Len(q) |-> q[f[i]]] :
        f \in {g \in [1..Len(q) -> 1..Len(q)] :
                  \A i, j \in 1..Len(q) : i # j => g[i] # g[j]}}

\* re.split on one separator: the parts between its occurrences.
RECURSIVE SplitOn(_, _)
SplitOn(text, sep) ==
    IF text = <<>> THEN << <<>> >>
    ELSE LET rest == SplitOn(Tail(text), sep)
         IN  IF Head(text) = sep THEN << <<>> >> \o rest
             ELSE << <<Head(text)>> \o rest[1] >> \o Tail(rest)

\* split_markdown_by_pages splitting also when one page is expected.
SplitMarkdownByPagesAlwaysSplit(markdown, page_count) ==
    IF page_count = 0 THEN <<>>
    ELSE LET hr == SplitOn(markdown, "HR")
             nl == SplitOn(markdown, "NL3")
         IN  IF Len(hr) >= page_count THEN SubSeq(hr, 1, page_count)
             ELSE IF Len(nl) >= page_count THEN SubSeq(nl, 1, page_count)
             ELSE <<markdown>> \o [i \in 1..(page_count - 1) |-> <<>>]

\* split_markdown_by_pages(markdown, page_count)
SplitMarkdownByPages(markdown, page_count) ==
    IF page_count = 0 THEN <<>>
    ELSE IF page_count = 1 THEN <<markdown>>
    ELSE LET hr == SplitOn(markdown, "HR")
             nl == SplitOn(markdown, "NL3")
         IN  IF Len(hr) >= page_count THEN SubSeq(hr, 1, page_count)
             ELSE IF Len(nl) >= page_count THEN SubSeq(nl, 1, page_count)
             ELSE <<markdown>> \o [i \in 1..(page_count - 1) |-> <<>>]

\* The update of one PageResult in map_results_to_files, with the status
\* left as it was: flagged and status drift apart.
RescorePageStaleStatus(page, text, threshold) ==
    LET result == Analyze(text, NoConfidence, threshold)
    IN  [page EXCEPT !.text = text, !.engine = "surya",
                     !.quality_score = result.score,
                     !.flagged = (result.score < threshold)]

\* The update of one PageResult in map_results_to_files: new text, engine
\* SURYA, the analyzer's score, flagged and status from score < threshold.
RescorePage(page, text, threshold) ==
    LET result == Analyze(text, NoConfidence, threshold)
        flagged == result.score < threshold
    IN  [page EXCEPT !.text = text, !.engine = "surya",
                     !.quality_score = result.score,
                     !.flagged = flagged,
                     !.status = IF flagged THEN "flagged" ELSE "good"]

\* The loop of map_results_to_files from record i on. Indexing page_texts
\* by batch_index, or a file's pages by page_number, past the end raises
\* IndexError and leaves the pages updated so far as they are.
RECURSIVE MapLoop(_, _, _, _, _)
MapLoop(pages, fps, i, page_texts, threshold) ==
    IF i > Len(fps) THEN [pages |-> pages, err |-> "none"]
    ELSE LET fp == fps[i]
         IN  IF fp.batch_index >= Len(page_texts)
               THEN [pages |-> pages, err |-> "IndexError"]
             ELSE IF fp.page_number >= Len(pages[fp.file])
               THEN [pages |-> pages, err |-> "IndexError"]
             ELSE MapLoop(
                      [pages EXCEPT ![fp.file][fp.page_number + 1] =
                          RescorePage(@, page_texts[fp.batch_index + 1], threshold)],
                      fps, i + 1, page_texts, threshold)

\* map_results_to_files(flagged_pages, surya_text, analyzer)
MapResultsToFiles(pages, fps, surya_text, threshold) ==
    MapLoop(pages, fps, 1, SplitMarkdownByPages(surya_text, Len(fps)), threshold)

\* The last sub-batch call: which sub-batch, whether Engine-B returned, its
\* output, how map_results_to_files ended, and the pages as they were before.
NoCall ==
    [batch |-> 0, engine |-> "none", blob |-> <<>>, err |-> "none",
     before |-> [f \in BatchFiles |-> <<>>]]

RECURSIVE SumOfScores(_)
SumOfScores(pages) ==
    IF pages = <<>> THEN 0
    ELSE Head(pages).quality_score + SumOfScores(Tail(pages))

\* A FileResult's quality left as Phase-1 computed it.
RolledUpQualityKept(pages, old) == old

\* The overall quality of a file: the mean of its page scores.
RolledUpQuality(pages, old) ==
    IF pages = <<>> THEN old ELSE SumOfScores(pages) \div Len(pages)

\* The roll-up fields of a FileResult built from its pages.
FileRollup(pages, old) ==
    [engine |-> ComputeEngineFromPages(pages),
     quality_score |-> RolledUpQuality(pages, old.quality_score)]

NoRollup == [engine |-> "none", quality_score |-> 0]

\* Memory readings (tenths of a GB) and devices the planner may be given.
MemoryReadings == {10, 30, 320}
PlannerDevices == {"mps", "cpu"}

FileOrder == [i \in 1..NumFiles |-> i]

BatchInit ==
    /\ bthreshold \in Thresholds
    /\ \E texts \in [BatchFiles -> [1..PagesPerFile -> Phase1Texts]] :
          bpages = [f \in BatchFiles |-> Phase1Pages(texts[f], bthreshold)]
    /\ flaggedPages = <<>>
    /\ batches = <<>>
    /\ bj = 0
    /\ bpc = "phase1"
    /\ lastCall = NoCall
    /\ bhasPath = [f \in BatchFiles |-> TRUE]
    /\ bcomb = NoCombined
    /\ bfiles = [f \in BatchFiles |-> FileRollup(bpages[f], NoRollup)]

\* Phase-2 collects the flagged pages of all files; a file may be missing
\* from the filename -> path mapping.
DoCollect ==
    /\ bpc = "phase1"
    /\ \E hasPath \in [BatchFiles -> BOOLEAN] :
          /\ bhasPath' = hasPath
          /\ flaggedPages' = CollectFlaggedPages(FileOrder, bpages, hasPath)
    /\ bpc' = "collected"
    /\ UNCHANGED <<bthreshold, bpages, batches, bj, lastCall, bcomb, bfiles>>
    /\ UNCHANGED notBatch

\* Phase-2 splits them by the memory currently free.
DoSplit ==
    /\ bpc = "collected"
    /\ \E mem \in MemoryReadings, dev \in PlannerDevices :
          batches' = SplitIntoBatches(flaggedPages, mem, dev)
    /\ bpc' = IF batches' = <<>> THEN "done" ELSE "mapping"
    /\ UNCHANGED <<bthreshold, bpages, flaggedPages, bj, lastCall, bhasPath, bcomb, bfiles>>
    /\ UNCHANGED notBatch

\* create_combined_pdf is called on the sub-batch that is next, its records
\* in any order, or on the empty list when nothing was flagged.
DoCombine ==
    /\ \/ /\ bpc = "mapping"
          /\ bcomb.batch # bj + 1
          /\ \E given \in ListOrders(batches[bj + 1]), readable \in BOOLEAN :
                bcomb' = [called |-> TRUE, batch |-> bj + 1, given |-> given,
                          out |-> CreateCombinedPdf(given, readable)]
       \/ /\ bpc = "done"
          /\ batches = <<>>
          /\ ~bcomb.called
          /\ bcomb' = [called |-> TRUE, batch |-> 0, given |-> <<>>,
                       out |-> CreateCombinedPdf(<<>>, TRUE)]
    /\ UNCHANGED <<bthreshold, bpages, flaggedPages, batches, bj, bpc, lastCall,
                   bhasPath, bfiles>>
    /\ UNCHANGED notBatch

\* One sub-batch: Engine-B converts its combined input and the output is
\* mapped back, or Engine-B raises (there may be no combined input to
\* convert) and the sub-batch is skipped.
DoSubBatch ==
    /\ bpc = "mapping"
    /\ bj < Len(batches)
    /\ bcomb.batch = bj + 1
    /\ \/ /\ bcomb.out.written
          /\ \E blob \in Blobs(Len(batches[bj + 1])) :
                LET m == MapResultsToFiles(bpages, batches[bj + 1], blob, bthreshold)
                IN  /\ bpages' = m.pages
                    /\ lastCall' = [batch |-> bj + 1, engine |-> "returned",
                                    blob |-> blob, err |-> m.err,
                                    before |-> bpages]
       \/ /\ lastCall' = [batch |-> bj + 1, engine |-> "raised",
                          blob |-> <<>>, err |-> "none", before |-> bpages]
          /\ UNCHANGED bpages
    /\ bj' = bj + 1
    /\ bpc' = IF bj' = Len(batches) THEN "done" ELSE "mapping"
    /\ UNCHANGED <<bthreshold, flaggedPages, batches, bhasPath, bcomb, bfiles>>
    /\ UNCHANGED notBatch

\* Post-phase: every FileResult's engine and overall quality are derived
\* again from its pages.
PostPhase ==
    /\ bpc = "done"
    /\ bfiles' = [f \in BatchFiles |-> FileRollup(bpages[f], bfiles[f])]
    /\ bpc' = "final"
    /\ UNCHANGED <<bthreshold, bpages, flaggedPages, batches, bj, lastCall,
                   bhasPath, bcomb>>
    /\ UNCHANGED notBatch

\* ------------------------------------------------------------------------
\* Orchestrator (pipeline.py) and PDFProcessor (processor.py)
\* ------------------------------------------------------------------------

PipeFiles == 1..NumFiles
PipeTexts == {<<>>, <<"clean">>, <<"unknown">>}
TessTexts == {<<"clean">>, <<"garbled">>}

RECURSIVE SumSeq(_)
SumSeq(q) == IF q = <<>> THEN 0 ELSE Head(q) + SumSeq(Tail(q))

\* sum(page_qualities) / len(page_qualities) if page_qualities else 0
MeanOf(q) == IF q = <<>> THEN 0 ELSE SumSeq(q) \div Len(q)

\* [i for i, r in enumerate(page_results) if r.flagged]
RECURSIVE BadPagesFrom(_, _)
BadPagesFrom(page_results, i) ==
    IF i > Len(page_results) THEN <<>>
    ELSE (IF page_results[i].flagged THEN <<i - 1>> ELSE <<>>)
         \o BadPagesFrom(page_results, i + 1)

\* QualityAnalyzer.analyze_pages without confidence data
AnalyzePages(page_texts, threshold) ==
    [i \in 1..Len(page_texts) |-> Analyze(page_texts[i], NoConfidence, threshold)]

ScoresOf(page_results) ==
    [i \in 1..Len(page_results) |-> page_results[i].score]

ExtendedResult(file, success, method, score, hasOutput, error, bad, quals) ==
    [filename |-> file, success |-> success, method |-> method,
     quality_score |-> score, has_output |-> hasOutput, error |-> error,
     bad_pages |-> bad, page_qualities |-> quals]

NoFile == [pdf |-> "absent", has_txt |-> FALSE, txt |-> <<>>]

\* The inverted guard: files with bad pages are copied, good ones re-OCRed.
TakeFastPathInverted(force_tesseract, bad_pages) ==
    ~force_tesseract /\ bad_pages # <<>>

\* `if not force_tesseract and not bad_pages:` the copy-as-is shortcut
TakeFastPath(force_tesseract, bad_pages) ==
    ~force_tesseract /\ bad_pages = <<>>

\* What ocrmypdf does with a file: it exits 0, or it fails on a missing
\* dependency, with a non-zero exit code, or by running into the timeout.
TesseractOutcomes == {"ok", "missing_dependency", "exit_code", "timeout"}

\* PDFProcessor.run_tesseract: `return result.returncode == 0`, and False
\* from both except clauses; the cause is logged and not returned.
RunTesseract(outcome) == outcome = "ok"

\* str(e) of an exception caught by _process_single's `except Exception`:
\* empty when the exception was raised without arguments (MemoryError()).
ExceptionMessages == {"", "exception"}

\* What a Phase-1 worker meets: whether text extraction works, whether an
\* exception escapes inside the try block before any output is written (and
\* its message), what Tesseract does, and the page texts of Tesseract's
\* output.  Fields that the run never looks at are held at one value.
WorkerEnvs(n) ==
    {env \in [extractOk : BOOLEAN, tryExc : BOOLEAN, message : ExceptionMessages,
              tess : TesseractOutcomes, tessTexts : [1..n -> TessTexts]] :
        /\ ~env.tryExc => env.message = ""
        /\ env.tryExc => env.tess = "ok"
        /\ (env.tryExc \/ env.tess # "ok") =>
               env.tessTexts = [i \in 1..n |-> <<"clean">>]}

\* _process_single from the try block on: the result it returns, what it
\* leaves in final/, and whether it ran Tesseract.
ProcessSingle(file, texts, cfg, env) ==
    LET page_texts == IF env.extractOk THEN texts ELSE <<>>
        page_results == AnalyzePages(page_texts, cfg.threshold)
        bad_pages == BadPagesFrom(page_results, 1)
        tess_results == AnalyzePages(env.tessTexts, cfg.threshold)
        bad_after == BadPagesFrom(tess_results, 1)
    IN  IF env.tryExc
          THEN [result |-> ExtendedResult(file, FALSE, "error", 0, FALSE,
                                          env.message, <<>>, <<>>),
                files |-> NoFile, tesseract |-> 0]
        ELSE IF TakeFastPath(cfg.force_tesseract, bad_pages)
          THEN [result |-> ExtendedResult(file, TRUE, "existing",
                               MeanOf(ScoresOf(page_results)), TRUE, "none",
                               <<>>, ScoresOf(page_results)),
                files |-> [pdf |-> "input", has_txt |-> TRUE, txt |-> page_texts],
                tesseract |-> 0]
        ELSE IF ~RunTesseract(env.tess)
          THEN [result |-> ExtendedResult(file, FALSE, "error", 0, FALSE,
                               "Tesseract OCR failed", <<>>, <<>>),
                files |-> NoFile, tesseract |-> 1]
        ELSE IF bad_after = <<>>
          THEN [result |-> ExtendedResult(file, TRUE, "tesseract",
                               MeanOf(ScoresOf(tess_results)), TRUE, "none",
                               <<>>, ScoresOf(tess_results)),
                files |-> [pdf |-> "tesseract", has_txt |-> TRUE,
                          txt |-> env.tessTexts],
                tesseract |-> 1]
        ELSE [result |-> ExtendedResult(file, FALSE, "needs_surya",
                             MeanOf(ScoresOf(tess_results)), TRUE,
                             "pages below threshold", bad_after,
                             ScoresOf(tess_results)),
              files |-> [pdf |-> "tesseract", has_txt |-> TRUE,
                          txt |-> env.tessTexts],
              tesseract |-> 1]

NoFuture == [kind |-> "none"]
\* Phase-2 bookkeeping: the pages queued, how combining went, where
\* run_surya_batch stands ("none", "loaded", "load_raised", "convert_raised",
\* "texts"), whether anything of Engine-B failed, the number of model loads,
\* pages_done, the sub-batches being converted and len(all_texts).
NoP2 == [all_bad_pages |-> <<>>, combined |-> "none", surya |-> "none",
         engineRaised |-> FALSE, loads |-> 0, done |-> 0, converting |-> {},
         texts |-> 0]

\* run_surya_batch's batch_size: run_pipeline passes 50; scaled down so that
\* the few pages of a modelled run span more than one sub-batch.
SuryaBatchSize == 2

\* run_pipeline up to the submission of every input to the pool.
PipeInit ==
    /\ pcfg \in [force_tesseract : BOOLEAN, threshold : Thresholds]
    /\ pin \in [PipeFiles -> [1..PagesPerFile -> PipeTexts]]
    /\ wstate = [f \in PipeFiles |-> "running"]
    /\ future = [f \in PipeFiles |-> NoFuture]
    /\ results = <<>>
    /\ needs_surya = <<>>
    /\ disk = [f \in PipeFiles |-> NoFile]
    /\ engineA = [f \in PipeFiles |-> 0]
    /\ engineB = {}
    /\ pstage = "phase1"
    /\ p2 = NoP2
    /\ p1snap = [results |-> <<>>, disk |-> [f \in PipeFiles |-> NoFile]]

\* A worker ends: _process_single returned a result, or it raised before its
\* try block (or the pool lost the worker), which future.result() re-raises.
WorkerFinish(f) ==
    /\ pstage \in {"phase1", "interrupted"}
    /\ wstate[f] = "running"
    /\ \/ \E env \in WorkerEnvs(Len(pin[f])) :
            LET w == ProcessSingle(f, pin[f], pcfg, env)
            IN  /\ future' = [future EXCEPT ![f] =
                                 [kind |-> "result", result |-> w.result,
                                  raised |-> env.tryExc,
                                  extracted |-> IF env.extractOk THEN pin[f] ELSE <<>>]]
                /\ disk' = [disk EXCEPT ![f] = w.files]
                /\ engineA' = [engineA EXCEPT ![f] = @ + w.tesseract]
       \/ /\ future' = [future EXCEPT ![f] = [kind |-> "exception"]]
          /\ UNCHANGED <<disk, engineA>>
    /\ wstate' = [wstate EXCEPT ![f] = "finished"]
    /\ UNCHANGED <<pcfg, pin, results, needs_surya, engineB, pstage, p2, p1snap>>
    /\ UNCHANGED notPipe

\* One turn of the `for future in as_completed(...)` loop.
CollectResult(f) ==
    /\ pstage = "phase1"
    /\ wstate[f] = "finished"
    /\ IF future[f].kind = "result"
         THEN /\ results' = Append(results, future[f].result)
              /\ needs_surya' = IF future[f].result.method = "needs_surya"
                                  THEN Append(needs_surya, f)
                                  ELSE needs_surya
         ELSE UNCHANGED <<results, needs_surya>>
    /\ wstate' = [wstate EXCEPT ![f] = "collected"]
    /\ UNCHANGED <<pcfg, pin, future, disk, engineA, engineB, pstage, p2, p1snap>>
    /\ UNCHANGED notPipe

\* SIGINT while run_pipeline waits in as_completed: KeyboardInterrupt is
\* raised in the loop; it is no Exception, so the loop's handler does not
\* catch it and the loop is left with the futures handled so far.
Interrupt ==
    /\ pstage = "phase1"
    /\ \E f \in PipeFiles : wstate[f] = "running"
    /\ pstage' = "interrupted"
    /\ UNCHANGED <<pcfg, pin, wstate, future, results, needs_surya, disk,
                   engineA, engineB, p2, p1snap>>
    /\ UNCHANGED notPipe

\* Leaving the `with ProcessPoolExecutor` block on the exception waits for
\* every submitted worker (shutdown(wait=True)); then KeyboardInterrupt
\* leaves run_pipeline, which returns nothing.
InterruptPropagates ==
    /\ pstage = "interrupted"
    /\ \A f \in PipeFiles : wstate[f] # "running"
    /\ pstage' = "raised"
    /\ UNCHANGED <<pcfg, pin, wstate, future, results, needs_surya, disk,
                   engineA, engineB, p2, p1snap>>
    /\ UNCHANGED notPipe

\* all_bad_pages: (file, page) for every bad page of every needs_surya result
RECURSIVE AllBadPages(_)
AllBadPages(rs) ==
    IF rs = <<>> THEN <<>>
    ELSE LET r == Head(rs)
         IN  (IF r.method = "needs_surya"
                THEN [i \in 1..Len(r.bad_pages) |-> <<r.filename, r.bad_pages[i]>>]
                ELSE <<>>)
             \o AllBadPages(Tail(rs))

\* The `with ProcessPoolExecutor` block is left once the as_completed loop
\* has handled every future. The mutant leaves it after the first one.
PoolDrainedEarly(ws) == \E f \in PipeFiles : ws[f] = "collected"

PoolDrained(ws) == \A f \in PipeFiles : ws[f] = "collected"

\* Engine-B is entered whatever Phase-1 left.
Phase2EnteredAlways(needs, bad) == TRUE

\* `if needs_surya:` ... `if total_bad_pages == 0: ... else:`
Phase2Entered(needs, bad) == needs # <<>> /\ bad # <<>>

\* The pool is drained: Phase-1 results are printed, Phase-2 is entered if
\* any file needs Engine-B and has bad pages.
Phase1Done ==
    /\ pstage = "phase1"
    /\ PoolDrained(wstate)
    /\ p1snap' = [results |-> results, disk |-> disk]
    /\ pstage' = IF Phase2Entered(needs_surya, AllBadPages(results))
                   THEN "phase2" ELSE "summary"
    /\ UNCHANGED <<pcfg, pin, wstate, future, results, needs_surya, disk,
                   engineA, engineB, p2>>
    /\ UNCHANGED notPipe

\* Phase-2, step 1: combine_pages_from_multiple_pdfs builds the combined
\* input; any failure inside it comes back as False.
CombinePages ==
    /\ pstage = "phase2"
    /\ \E ok \in BOOLEAN :
          /\ p2' = [p2 EXCEPT !.all_bad_pages = AllBadPages(results),
                              !.combined = IF ok THEN "ok" ELSE "failed",
                              !.engineRaised = ~ok]
          /\ pstage' = IF ok THEN "surya" ELSE "summary"
    /\ UNCHANGED <<pcfg, pin, wstate, future, results, needs_surya, disk,
                   engineA, engineB, p1snap>>
    /\ UNCHANGED notPipe

\* run_surya_batch, "Load models ONCE": marker is imported and
\* create_model_dict() runs; an exception ends the function with None.
SuryaLoadModels ==
    /\ pstage = "surya"
    /\ p2.surya = "none"
    /\ \/ /\ p2' = [p2 EXCEPT !.surya = "loaded", !.loads = @ + 1]
          /\ UNCHANGED pstage
       \/ /\ p2' = [p2 EXCEPT !.surya = "load_raised", !.loads = @ + 1,
                              !.engineRaised = TRUE]
          /\ pstage' = "summary"
    /\ UNCHANGED <<pcfg, pin, wstate, future, results, needs_surya, disk,
                   engineA, engineB, p1snap>>
    /\ UNCHANGED notPipe

\* The pages of the combined input the sub-batch starting at `start` holds.
SuryaBatchPages(start) ==
    {p2.all_bad_pages[i] :
        i \in (start + 1)..Min2(start + SuryaBatchSize, Len(p2.all_bad_pages))}

\* One turn of the batch loop up to the converter call: the sub-batch is
\* extracted to its own file (a failed extraction skips it) and handed to
\* the converter.
SuryaBatchBegin ==
    /\ pstage = "surya"
    /\ p2.surya = "loaded"
    /\ p2.converting = {}
    /\ p2.done < Len(p2.all_bad_pages)
    /\ \/ /\ p2' = [p2 EXCEPT !.converting = {p2.done}]
          /\ engineB' = engineB \cup SuryaBatchPages(p2.done)
       \/ /\ p2' = [p2 EXCEPT !.done = @ + Cardinality(SuryaBatchPages(p2.done))]
          /\ UNCHANGED engineB
    /\ UNCHANGED <<pcfg, pin, wstate, future, results, needs_surya, disk,
                   engineA, pstage, p1snap>>
    /\ UNCHANGED notPipe

\* The converter call ends: its page texts (or, when none can be read back,
\* the one markdown) are appended; if it raised, run_surya_batch gives None.
SuryaBatchEnd ==
    /\ pstage = "surya"
    /\ p2.converting # {}
    /\ LET n == Cardinality(SuryaBatchPages(p2.done))
       IN  \/ /\ \E got \in {n, 1} :
                    p2' = [p2 EXCEPT !.converting = {}, !.done = @ + n,
                                     !.texts = @ + got]
              /\ UNCHANGED pstage
           \/ /\ p2' = [p2 EXCEPT !.converting = {}, !.surya = "convert_raised",
                                  !.engineRaised = TRUE]
              /\ pstage' = "summary"
    /\ UNCHANGED <<pcfg, pin, wstate, future, results, needs_surya, disk,
                   engineA, engineB, p1snap>>
    /\ UNCHANGED notPipe

\* `return all_texts`; run_pipeline only reports how many texts came back.
SuryaReturn ==
    /\ pstage = "surya"
    /\ p2.surya = "loaded"
    /\ p2.converting = {}
    /\ p2.done >= Len(p2.all_bad_pages)
    /\ p2' = [p2 EXCEPT !.surya = "texts"]
    /\ pstage' = "summary"
    /\ UNCHANGED <<pcfg, pin, wstate, future, results, needs_surya, disk,
                   engineA, engineB, p1snap>>
    /\ UNCHANGED notPipe

\* The summary is printed and `results` returned.
ReturnResults ==
    /\ pstage = "summary"
    /\ pstage' = "returned"
    /\ UNCHANGED <<pcfg, pin, wstate, future, results, needs_surya, disk,
                   engineA, engineB, p2, p1snap>>
    /\ UNCHANGED notPipe

\* ------------------------------------------------------------------------
\* Single calls of pure functions (batch.py, types.py, device.py)
\* ------------------------------------------------------------------------
MaxPlanMemory == 4

\* Page counts and memory readings (tenths of a GB) on both sides of the
\* caps and of the 0.7 GB-per-page boundaries.
PlanSizes == {0, 1, 2, 3, 5, 31, 32, 33, 50, 100, 101, 150}
SplitSizes == {0, 1, 2, 3, 5, 33, 50}
PlanMemory == {0, 7, 13, 14, 27, 28, 40, 80, 1399, 1400, 1414, 3000}
                  \cup {14 * q + 5 : q \in 0..MaxPlanMemory}

\* The list collect_flagged_pages hands to the planner for n flagged pages.
PlannedList(n) ==
    [i \in 1..n |-> FlaggedPage(1 + ((i - 1) % NumFiles), (i - 1) \div NumFiles, i - 1)]

UnsetVar == "unset"
NoFnCall == [fn |-> "none"]
NoEnviron == [RECOGNITION_BATCH_SIZE |-> UnsetVar, DETECTOR_BATCH_SIZE |-> UnsetVar]

FunctionsIdle ==
    /\ fncall = NoFnCall
    /\ fnret = 0
    /\ environ = NoEnviron

CallComputeSafeBatchSize ==
    /\ fncall = NoFnCall
    /\ \E n \in PlanSizes, mem \in PlanMemory, dev \in Devices :
          /\ fncall' = [fn |-> "compute_safe_batch_size", total_pages |-> n,
                        available |-> mem, device |-> dev]
          /\ fnret' = ComputeSafeBatchSize(n, mem, dev)
    /\ UNCHANGED environ
    /\ UNCHANGED notFunctions

CallSplitIntoBatches ==
    /\ fncall = NoFnCall
    /\ \E n \in SplitSizes, mem \in PlanMemory, dev \in Devices :
          /\ fncall' = [fn |-> "split_into_batches", flagged_pages |-> PlannedList(n),
                        available |-> mem, device |-> dev]
          /\ fnret' = SplitIntoBatches(PlannedList(n), mem, dev)
    /\ UNCHANGED environ
    /\ UNCHANGED notFunctions

MaxSplitPages == 3

MaxEnginePages == 3

\* Page lists of every engine combination.
EnginePageLists ==
    {[i \in 1..Len(es) |-> PageResult(i - 1, "good", Scale, es[i], FALSE, <<>>)] :
        es \in UNION {[1..k -> Engines] : k \in 0..MaxEnginePages}}

CallComputeEngineFromPages ==
    /\ fncall = NoFnCall
    /\ \E pages \in EnginePageLists :
          /\ fncall' = [fn |-> "compute_engine_from_pages", pages |-> pages]
          /\ fnret' = ComputeEngineFromPages(pages)
    /\ UNCHANGED environ
    /\ UNCHANGED notFunctions

\* What torch reports on a machine: whether CUDA / MPS are available and
\* whether a test tensor can be allocated on them. MPS is available only
\* in a build with MPS support.
Hardware ==
    {hw \in [cuda_available : BOOLEAN, cuda_ok : BOOLEAN, mps_built : BOOLEAN,
             mps_available : BOOLEAN, mps_ok : BOOLEAN] :
        hw.mps_available => hw.mps_built}

DeviceInfo(device_type, fallback_from) ==
    [device_type |-> device_type, validated |-> TRUE, fallback_from |-> fallback_from]

NoDeviceInfo == [device_type |-> NoDevice, validated |-> FALSE, fallback_from |-> NoDevice]

\* _try_cuda
TryCuda(hw) ==
    IF ~hw.cuda_available THEN NoDeviceInfo
    ELSE IF hw.cuda_ok THEN DeviceInfo("cuda", NoDevice)
    ELSE NoDeviceInfo

\* _try_mps taking an available MPS device without the test allocation.
TryMpsUnvalidated(hw) ==
    IF ~hw.mps_built THEN NoDeviceInfo
    ELSE IF ~hw.mps_available THEN NoDeviceInfo
    ELSE DeviceInfo("mps", NoDevice)

\* _try_mps
TryMps(hw) ==
    IF ~hw.mps_built THEN NoDeviceInfo
    ELSE IF ~hw.mps_available THEN NoDeviceInfo
    ELSE IF hw.mps_ok THEN DeviceInfo("mps", NoDevice)
    ELSE NoDeviceInfo

\* detect_device
DetectDevice(hw) ==
    LET cuda_result == TryCuda(hw)
        fallback1 == IF hw.cuda_available THEN "cuda" ELSE NoDevice
        mps_result == TryMps(hw)
        fallback2 == IF fallback1 = NoDevice /\ hw.mps_available THEN "mps"
                     ELSE fallback1
    IN  IF cuda_result # NoDeviceInfo THEN cuda_result
        ELSE IF mps_result # NoDeviceInfo
             THEN IF fallback1 # NoDevice
                  THEN [mps_result EXCEPT !.fallback_from = fallback1]
                  ELSE mps_result
        ELSE DeviceInfo("cpu", fallback2)

CallDetectDevice ==
    /\ fncall = NoFnCall
    /\ \E hw \in Hardware :
          /\ fncall' = [fn |-> "detect_device", hw |-> hw]
          /\ fnret' = DetectDevice(hw)
    /\ UNCHANGED environ
    /\ UNCHANGED notFunctions

\* The error of the TesseractResult that tesseract.run_ocr returns on failure:
\* f"Missing dependency: {exc}", f"Exit code: {result}", and the name and
\* text of any other exception, the timeout among them.
TesseractResultError(outcome) ==
    CASE outcome = "missing_dependency" -> "Missing dependency"
      [] outcome = "exit_code" -> "Exit code"
      [] outcome = "timeout" -> "TimeoutExpired"
      [] OTHER -> "none"

\* Page counts of the files handed to _process_single on its own.
WorkerPages == 1

\* _process_single(args) for one file: its result, what it leaves in final/
\* and whether it ran Tesseract.
CallProcessSingle ==
    /\ fncall = NoFnCall
    /\ \E texts \in [1..WorkerPages -> PipeTexts],
          cfg \in [force_tesseract : BOOLEAN, threshold : Thresholds] :
          \E env \in WorkerEnvs(Len(texts)) :
             /\ fncall' = [fn |-> "_process_single", texts |-> texts,
                           cfg |-> cfg, env |-> env]
             /\ fnret' = ProcessSingle(1, texts, cfg, env)
    /\ UNCHANGED environ
    /\ UNCHANGED notFunctions

\* LANGUAGE_MAP, ISO 639-1 code to Tesseract code (two of its five rows).
LanguageMap == [en |-> "eng", fr |-> "fra"]

\* Codes given with --language: known ones and one that is not in the map.
IsoCodes == {"en", "fr", "xx"}
MaxLanguages == 2

\* resolve_languages: the Tesseract codes of the given ISO codes, the
\* default set when none is given, ValueError on a code outside the map.
ResolveLanguages(iso_codes) ==
    IF iso_codes = <<>> THEN [raised |-> FALSE, langs |-> {"eng", "fra"}]
    ELSE IF \E i \in 1..Len(iso_codes) : iso_codes[i] \notin DOMAIN LanguageMap
      THEN [raised |-> TRUE, langs |-> {}]
    ELSE [raised |-> FALSE,
          langs |-> {LanguageMap[iso_codes[i]] : i \in 1..Len(iso_codes)}]

\* validate_environment: the problems it collects; it raises
\* EnvironmentError when there is any.
ValidateEnvironment(host, langs) ==
    (IF ~host.tesseract THEN {<<"tesseract", "not found">>}
     ELSE {<<"language pack", l>> : l \in langs \ host.packs})
    \cup (IF host.tmpWritable THEN {} ELSE {<<"TMPDIR", "not writable">>})

\* What run_pipeline does for the CLI: it returns a BatchResult with so
\* many files, so many of them failed, or it raises.
MaxBatchFiles == 2
PipelineRuns ==
    {[kind |-> "batch", files |-> n, error_count |-> e] :
        n \in 1..MaxBatchFiles, e \in 0..MaxBatchFiles} \cup
    {[kind |-> "exception"], [kind |-> "interrupt"]}

CliInputs ==
    [codes : UNION {[1..n -> IsoCodes] : n \in 0..MaxLanguages},
     host : [tesseract : BOOLEAN, packs : SUBSET {"eng", "fra"},
             tmpWritable : BOOLEAN],
     pdfs : BOOLEAN,
     run : {r \in PipelineRuns : r.kind = "batch" => r.error_count <= r.files}]

\* cli.main from language resolution on: the status the process exits with.
Main(inp) ==
    LET resolved == ResolveLanguages(inp.codes)
    IN  IF resolved.raised THEN 1
        ELSE IF ValidateEnvironment(inp.host, resolved.langs) # {} THEN 1
        ELSE IF ~inp.pdfs THEN 1
        ELSE IF inp.run.kind = "interrupt" THEN 130
        ELSE IF inp.run.kind = "exception" THEN 1
        ELSE IF inp.run.error_count = 0 THEN 0 ELSE 1

CallMain ==
    /\ fncall = NoFnCall
    /\ \E inp \in CliInputs :
          /\ fncall' = [fn |-> "main", inp |-> inp]
          /\ fnret' = Main(inp)
    /\ UNCHANGED environ
    /\ UNCHANGED notFunctions

\* ---- postprocess.py: texts are sequences of characters ----
\* "a" a lower-case letter, "B" an upper-case letter, "f" and "i" the letters
\* of the decomposed ligature, "LIG" the ligature U+FB01, "SHY" the soft
\* hyphen, "SP" a space, "NL" a newline, "." a punctuation mark.
PostChars == {"a", "B", "-", "NL", "SP", ".", "LIG", "SHY"}
MaxPostLen == 4
PostTexts == UNION {[1..n -> PostChars] : n \in 0..MaxPostLen}

\* \w, str.isupper, \s, [ \t] and [.,;:!?] on these characters
IsWord(c) == c \in {"a", "B", "f", "i", "LIG"}
IsUpper(c) == c = "B"
IsSpace(c) == c \in {"SP", "NL"}
IsBlank(c) == c = "SP"
IsPunct(c) == c = "."

Drop(t, k) == SubSeq(t, k + 1, Len(t))

\* Lengths of the longest prefix of t made of word characters, of
\* whitespace, of blanks, of newlines.
WordRun(t) ==
    CHOOSE k \in 0..Len(t) :
        (\A i \in 1..k : IsWord(t[i])) /\ (k = Len(t) \/ ~IsWord(t[k + 1]))
SpaceRun(t) ==
    CHOOSE k \in 0..Len(t) :
        (\A i \in 1..k : IsSpace(t[i])) /\ (k = Len(t) \/ ~IsSpace(t[k + 1]))
BlankRun(t) ==
    CHOOSE k \in 0..Len(t) :
        (\A i \in 1..k : IsBlank(t[i])) /\ (k = Len(t) \/ ~IsBlank(t[k + 1]))
NewlineRun(t) ==
    CHOOSE k \in 0..Len(t) :
        (\A i \in 1..k : t[i] = "NL") /\ (k = Len(t) \/ t[k + 1] # "NL")

\* str.rstrip() and str.strip(): whitespace off the end, off both ends
RECURSIVE RStrip(_)
RStrip(t) ==
    IF t # <<>> /\ IsSpace(t[Len(t)]) THEN RStrip(SubSeq(t, 1, Len(t) - 1)) ELSE t
Strip(t) == Drop(RStrip(t), SpaceRun(RStrip(t)))

\* normalize_unicode: ligatures decomposed, soft hyphens removed; NFC
\* changes none of these characters.
RECURSIVE NormalizeUnicode(_)
NormalizeUnicode(t) ==
    IF t = <<>> THEN <<>>
    ELSE (CASE Head(t) = "LIG" -> <<"f", "i">>
            [] Head(t) = "SHY" -> <<>>
            [] OTHER -> <<Head(t)>>)
         \o NormalizeUnicode(Tail(t))

\* _replace_hyphen: the hyphen stays when both parts start with a capital
\* (no text over these characters is one of _HYPHENATED_NAMES).
ReplaceHyphen(left, right) ==
    IF IsUpper(left[1]) /\ IsUpper(right[1])
      THEN left \o <<"-">> \o right
      ELSE left \o right

\* dehyphenate: re.sub(r"(\w+)-\n(\w+)", _replace_hyphen, text), matches
\* taken from left to right without overlap.
RECURSIVE Dehyphenate(_)
Dehyphenate(t) ==
    IF t = <<>> THEN <<>>
    ELSE IF ~IsWord(t[1]) THEN <<t[1]>> \o Dehyphenate(Tail(t))
    ELSE LET k == WordRun(t)
             r == WordRun(Drop(t, k + 2))
         IN  IF Len(t) >= k + 3 /\ t[k + 1] = "-" /\ t[k + 2] = "NL" /\ r > 0
               THEN ReplaceHyphen(SubSeq(t, 1, k), SubSeq(t, k + 3, k + 2 + r))
                    \o Dehyphenate(Drop(t, k + 2 + r))
               ELSE SubSeq(t, 1, k) \o Dehyphenate(Drop(t, k))

\* re.split(r"\n\n+", text)
RECURSIVE SplitBlocks(_, _)
SplitBlocks(t, cur) ==
    IF t = <<>> THEN <<cur>>
    ELSE IF NewlineRun(t) >= 2
      THEN <<cur>> \o SplitBlocks(Drop(t, NewlineRun(t)), <<>>)
    ELSE SplitBlocks(Tail(t), Append(cur, Head(t)))

\* block.split("\n")
RECURSIVE SplitLines(_, _)
SplitLines(t, cur) ==
    IF t = <<>> THEN <<cur>>
    ELSE IF Head(t) = "NL" THEN <<cur>> \o SplitLines(Tail(t), <<>>)
    ELSE SplitLines(Tail(t), Append(cur, Head(t)))

\* "".join(parts) and sep.join(parts)
RECURSIVE JoinWith(_, _)
JoinWith(parts, sep) ==
    IF parts = <<>> THEN <<>>
    ELSE IF Len(parts) = 1 THEN parts[1]
    ELSE parts[1] \o sep \o JoinWith(Tail(parts), sep)

\* `len(prev.replace("\n", "").strip()) < 60`: a line this short is taken
\* for a heading.
HeadingLength == 60

\* The loop of join_paragraphs over the lines of one block.
RECURSIVE MergeLines(_, _, _)
MergeLines(lines, i, merged) ==
    IF i > Len(lines) THEN merged
    ELSE LET line == lines[i]
             stripped == RStrip(line)
             prev == RStrip(merged[Len(merged)])
             heading == Len(Strip(SelectSeq(prev, LAMBDA c : c # "NL")))
                            < HeadingLength
         IN  IF line # <<>> /\ IsBlank(line[1]) /\ i > 1
               THEN MergeLines(lines, i + 1, Append(merged, <<"NL">> \o line))
             ELSE IF i > 1 /\ merged # <<>> /\ heading
                     /\ stripped # <<>> /\ IsUpper(stripped[1])
               THEN MergeLines(lines, i + 1, Append(merged, <<"NL">> \o stripped))
             ELSE IF i = 1
               THEN MergeLines(lines, i + 1, Append(merged, stripped))
             ELSE MergeLines(lines, i + 1, Append(merged, <<"SP">> \o stripped))

JoinBlock(block) ==
    LET lines == SplitLines(block, <<>>)
    IN  IF Len(lines) <= 1 THEN block
        ELSE JoinWith(MergeLines(lines, 1, <<>>), <<>>)

\* join_paragraphs
JoinParagraphs(t) ==
    LET blocks == SplitBlocks(t, <<>>)
    IN  JoinWith([b \in 1..Len(blocks) |-> JoinBlock(blocks[b])], <<"NL", "NL">>)

\* re.sub(r"\s+([.,;:!?])", r"\1", text)
RECURSIVE SpaceBeforePunctuation(_)
SpaceBeforePunctuation(t) ==
    IF t = <<>> THEN <<>>
    ELSE IF ~IsSpace(t[1]) THEN <<t[1]>> \o SpaceBeforePunctuation(Tail(t))
    ELSE LET k == SpaceRun(t)
         IN  IF k < Len(t) /\ IsPunct(t[k + 1])
               THEN <<t[k + 1]>> \o SpaceBeforePunctuation(Drop(t, k + 1))
               ELSE SubSeq(t, 1, k) \o SpaceBeforePunctuation(Drop(t, k))

\* re.sub(r"  +", " ", text)
RECURSIVE CollapseSpaces(_)
CollapseSpaces(t) ==
    IF t = <<>> THEN <<>>
    ELSE IF ~IsBlank(t[1]) THEN <<t[1]>> \o CollapseSpaces(Tail(t))
    ELSE <<"SP">> \o CollapseSpaces(Drop(t, BlankRun(t)))

\* re.sub(r"[ \t]+(\n)", r"\1", text), then re.sub(r"[ \t]+$", "", text):
\* `$` is the end of the text or the place before a newline that ends it.
RECURSIVE StripLineEnds(_)
StripLineEnds(t) ==
    IF t = <<>> THEN <<>>
    ELSE IF ~IsBlank(t[1]) THEN <<t[1]>> \o StripLineEnds(Tail(t))
    ELSE LET k == BlankRun(t)
         IN  IF k = Len(t) \/ t[k + 1] = "NL"
               THEN StripLineEnds(Drop(t, k))
               ELSE SubSeq(t, 1, k) \o StripLineEnds(Drop(t, k))

\* normalize_punctuation
NormalizePunctuation(t) ==
    StripLineEnds(CollapseSpaces(SpaceBeforePunctuation(t)))

\* postprocess: unicode -> dehyphenate -> paragraphs -> punctuation
Postprocess(t) ==
    NormalizePunctuation(JoinParagraphs(Dehyphenate(NormalizeUnicode(t))))

CallPostprocess ==
    /\ fncall = NoFnCall
    /\ \E text \in PostTexts :
          /\ fncall' = [fn |-> "postprocess", text |-> text]
          /\ fnret' = Postprocess(text)
    /\ UNCHANGED environ
    /\ UNCHANGED notFunctions

\* ---- PDFProcessor.run_surya_batch on a combined PDF ----
MaxCombinedPages == 4

\* What one turn of the batch loop meets: the batch is extracted, converted
\* and read back page by page ("texts"); extract_pages fails; no page text
\* can be read back; or the converter raises.
BatchOutcomes == {"texts", "extract_failed", "no_page_texts", "raised"}

\* The text read back for page i of the combined PDF, and the markdown the
\* converter rendered for the batch that starts at page `start`.
PageText(i) == <<"page", i>>
BatchMarkdown(start) == <<"markdown", start>>

\* The `for batch_start in range(0, total_pages, batch_size)` loop from
\* batch_start on: all_texts at its end, or "raised".
RECURSIVE SuryaBatchLoop(_, _, _, _, _)
SuryaBatchLoop(batch_start, total_pages, batch_size, outcomes, all_texts) ==
    IF batch_start >= total_pages THEN [returned |-> "list", texts |-> all_texts]
    ELSE LET batch_end == Min2(batch_start + batch_size, total_pages)
             outcome == outcomes[(batch_start \div batch_size) + 1]
             next == batch_start + batch_size
         IN  CASE outcome = "raised" -> [returned |-> "None"]
               [] outcome = "extract_failed" ->
                    SuryaBatchLoop(next, total_pages, batch_size, outcomes, all_texts)
               [] outcome = "no_page_texts" ->
                    SuryaBatchLoop(next, total_pages, batch_size, outcomes,
                                   Append(all_texts, BatchMarkdown(batch_start)))
               [] OTHER ->
                    SuryaBatchLoop(next, total_pages, batch_size, outcomes,
                        all_texts \o [k \in 1..(batch_end - batch_start) |->
                                         PageText(batch_start + k - 1)])

\* run_surya_batch: None when marker cannot be imported, the models cannot
\* be loaded or a conversion raises, otherwise the texts of the batches.
RunSuryaBatch(total_pages, batch_size, loadOk, outcomes) ==
    IF ~loadOk THEN [returned |-> "None"]
    ELSE SuryaBatchLoop(0, total_pages, batch_size, outcomes, <<>>)

CallRunSuryaBatch ==
    /\ fncall = NoFnCall
    /\ \E total \in 0..MaxCombinedPages, loadOk \in BOOLEAN :
          \E outcomes \in [1..((total + SuryaBatchSize - 1) \div SuryaBatchSize)
                              -> BatchOutcomes] :
             /\ fncall' = [fn |-> "run_surya_batch", total_pages |-> total,
                           loadOk |-> loadOk, outcomes |-> outcomes]
             /\ fnret' = RunSuryaBatch(total, SuryaBatchSize, loadOk, outcomes)
    /\ UNCHANGED environ
    /\ UNCHANGED notFunctions

\* Memory readings (tenths of a GB) on both sides of the 16 and 32 GB tiers.
ConfigMemory == {80, 159, 160, 319, 320}
EnvVars == {"RECOGNITION_BATCH_SIZE", "DETECTOR_BATCH_SIZE"}
UserValue == "7"

\* The recognition / detector pair configure_surya_batch_sizes picks.
TierBatchSizes(device, availTenths) ==
    IF device = "cpu" THEN [RECOGNITION_BATCH_SIZE |-> "32", DETECTOR_BATCH_SIZE |-> "6"]
    ELSE IF availTenths >= 320
         THEN [RECOGNITION_BATCH_SIZE |-> "128", DETECTOR_BATCH_SIZE |-> "64"]
    ELSE IF availTenths >= 160
         THEN [RECOGNITION_BATCH_SIZE |-> "64", DETECTOR_BATCH_SIZE |-> "32"]
    ELSE [RECOGNITION_BATCH_SIZE |-> "32", DETECTOR_BATCH_SIZE |-> "16"]

\* Plain assignment os.environ[var] = value.
SetAlways(env, var, value) == [env EXCEPT ![var] = value]

\* os.environ.setdefault(var, value)
SetDefault(env, var, value) ==
    IF env[var] = UnsetVar THEN [env EXCEPT ![var] = value] ELSE env

\* configure_surya_batch_sizes: the environment it leaves and the mapping it
\* returns.
ConfigureSuryaBatchSizes(env, device, availTenths) ==
    LET tier == TierBatchSizes(device, availTenths)
        env1 == SetDefault(env, "RECOGNITION_BATCH_SIZE", tier.RECOGNITION_BATCH_SIZE)
        env2 == SetDefault(env1, "DETECTOR_BATCH_SIZE", tier.DETECTOR_BATCH_SIZE)
    IN  [env |-> env2,
         result |-> [RECOGNITION_BATCH_SIZE |-> env2.RECOGNITION_BATCH_SIZE,
                     DETECTOR_BATCH_SIZE |-> env2.DETECTOR_BATCH_SIZE]]

CallConfigureSuryaBatchSizes ==
    /\ fncall.fn \in {"none", "configure_surya_batch_sizes"}
    /\ \E dev \in Devices, mem \in ConfigMemory :
          LET c == ConfigureSuryaBatchSizes(environ, dev, mem)
          IN  /\ fncall' = [fn |-> "configure_surya_batch_sizes", device |-> dev,
                            available |-> mem, before |-> environ]
              /\ environ' = c.env
              /\ fnret' = c.result
    /\ UNCHANGED notFunctions

CallSplitMarkdownByPages ==
    /\ fncall = NoFnCall
    /\ \E markdown \in Blobs(MaxBlobLen), n \in 0..MaxSplitPages :
          /\ fncall' = [fn |-> "split_markdown_by_pages", markdown |-> markdown,
                        page_count |-> n]
          /\ fnret' = SplitMarkdownByPages(markdown, n)
    /\ UNCHANGED environ
    /\ UNCHANGED notFunctions

\* ------------------------------------------------------------------------
\* Progress reporting (callbacks.py)
\* ------------------------------------------------------------------------
NumEventFiles == 3
EventFiles == 1..NumEventFiles

\* PhaseEvent and ProgressEvent (callbacks.py)
PhaseEvent(phase, status, files_count) ==
    [kind |-> "phase", phase |-> phase, status |-> status, files_count |-> files_count]

ProgressEvent(phase, current, total, filename) ==
    [kind |-> "progress", phase |-> phase, current |-> current, total |-> total,
     filename |-> filename]

EventsIdle ==
    /\ elog = <<>>
    /\ ephase = "finished"
    /\ erun = {}
    /\ edone = {}
    /\ eneeds = {}

EventsInit ==
    /\ elog = <<>>
    /\ ephase = "idle"
    /\ erun = {}
    /\ edone = {}
    /\ eneeds = {}

\* The files a phase works on: every input in Phase-1, the files left for
\* Engine-B in Phase-2.
FilesOfPhase(phase) == IF phase = "tesseract" THEN EventFiles ELSE eneeds

CompletedIn(phase) == {d \in edone : d[1] = phase}

\* A phase is entered: phase-event {started}.
StartPhase ==
    /\ ephase \in {"idle", "between"}
    /\ LET phase == IF ephase = "idle" THEN "tesseract" ELSE "surya"
       IN  /\ ephase' = phase
           /\ erun' = FilesOfPhase(phase)
           /\ elog' = Append(elog, PhaseEvent(phase, "started",
                                               Cardinality(FilesOfPhase(phase))))
    /\ UNCHANGED <<edone, eneeds>>
    /\ UNCHANGED notEvents

\* What the observer gets when a file completes, only for files that
\* succeeded.
ProgressOfSucceeded(phase, current, total, filename, ok) ==
    IF ok THEN <<ProgressEvent(phase, current, total, filename)>> ELSE <<>>

\* What the observer gets when a file completes, failed or not.
ProgressOfCompleted(phase, current, total, filename, ok) ==
    <<ProgressEvent(phase, current, total, filename)>>

\* A file of the running phase completes, successfully or not; a Phase-1
\* success may leave flagged pages for Engine-B.
CompleteFile(f) ==
    /\ ephase \in {"tesseract", "surya"}
    /\ f \in erun
    /\ \E ok \in BOOLEAN, flagged \in BOOLEAN :
          /\ flagged => (ok /\ ephase = "tesseract")
          /\ edone' = edone \cup {<<ephase, f, ok>>}
          /\ eneeds' = IF flagged THEN eneeds \cup {f} ELSE eneeds
          /\ elog' = elog \o ProgressOfCompleted(
                                 ephase, Cardinality(CompletedIn(ephase)) + 1,
                                 Cardinality(FilesOfPhase(ephase)), f, ok)
    /\ erun' = erun \ {f}
    /\ UNCHANGED ephase
    /\ UNCHANGED notEvents

\* The phase is left: phase-event {completed}; Phase-2 follows Phase-1 when
\* a file was left for Engine-B.
EndPhase ==
    /\ ephase \in {"tesseract", "surya"}
    /\ erun = {}
    /\ elog' = Append(elog, PhaseEvent(ephase, "completed",
                                        Cardinality(FilesOfPhase(ephase))))
    /\ ephase' = IF ephase = "tesseract" /\ eneeds # {} THEN "between" ELSE "finished"
    /\ UNCHANGED <<erun, edone, eneeds>>
    /\ UNCHANGED notEvents

\* ------------------------------------------------------------------------
\* Specifications
\* ------------------------------------------------------------------------
\* A subsystem that takes no part in a specification stays as constructed.
BatchIdle ==
    /\ bthreshold = 8500
    /\ bpages = [f \in BatchFiles |-> <<>>]
    /\ flaggedPages = <<>>
    /\ batches = <<>>
    /\ bj = 0
    /\ bpc = "idle"
    /\ lastCall = NoCall
    /\ bhasPath = [f \in BatchFiles |-> TRUE]
    /\ bcomb = NoCombined
    /\ bfiles = [f \in BatchFiles |-> NoRollup]

PipeIdle ==
    /\ pcfg = [force_tesseract |-> FALSE, threshold |-> 8500]
    /\ pin = [f \in PipeFiles |-> <<>>]
    /\ wstate = [f \in PipeFiles |-> "idle"]
    /\ future = [f \in PipeFiles |-> NoFuture]
    /\ results = <<>>
    /\ needs_surya = <<>>
    /\ disk = [f \in PipeFiles |-> NoFile]
    /\ engineA = [f \in PipeFiles |-> 0]
    /\ engineB = {}
    /\ pstage = "idle"
    /\ p2 = NoP2
    /\ p1snap = [results |-> <<>>, disk |-> [f \in PipeFiles |-> NoFile]]

\* ------------------------------------------------------------------------
\* Async jobs of the MCP server (mcp_server.py)
\* ------------------------------------------------------------------------
NumJobs == 2
JobIds == 1..NumJobs

\* The clock moves in steps of half an hour, for so many steps.
ClockStep == 1800
MaxClockSteps == 4

\* _JOB_TTL_SECONDS
JobTtlSeconds == 3600

NoJob == [status |-> "none"]
NotFinished == [ended |-> FALSE]
NoResponse == [tool |-> "none"]

\* JobState(job_id=...) as ocr_async creates it
JobState(created_at) ==
    [status |-> "running", result |-> "None", error |-> "None",
     created_at |-> created_at]

\* The expiry test of _cleanup_expired_jobs without its test of the status.
ExpiredWhateverStatus(job, now) ==
    (now - job.created_at) > JobTtlSeconds

\* `job.status in ("completed", "failed") and
\*  (now - job.created_at) > _JOB_TTL_SECONDS`
Expired(job, now) ==
    /\ job.status \in {"completed", "failed"}
    /\ (now - job.created_at) > JobTtlSeconds

\* _cleanup_expired_jobs: the registry without its expired jobs
CleanupExpiredJobs(js, now) ==
    [j \in JobIds |-> IF js[j] # NoJob /\ Expired(js[j], now) THEN NoJob ELSE js[j]]

\* _run_job from the return of asyncio.to_thread to its end, which runs
\* without yielding to the event loop: the pipeline returned and the result
\* is stored, or the pipeline or batch.to_dict raised and the handler marks
\* the job failed.
RunJob(job, outcome) ==
    CASE outcome = "returned" ->
           [job EXCEPT !.status = "completed", !.result = "batch"]
      [] OTHER ->
           [job EXCEPT !.status = "failed", !.error = "str(e)"]

RunOutcomes == {"returned", "pipeline_raised", "to_dict_raised"}

JobsIdle ==
    /\ jobs = [j \in JobIds |-> NoJob]
    /\ jnow = 0
    /\ jnext = NumJobs + 1
    /\ jfinished = [j \in JobIds |-> NotFinished]
    /\ jresp = NoResponse

JobsInit ==
    /\ jobs = [j \in JobIds |-> NoJob]
    /\ jnow = 0
    /\ jnext = 1
    /\ jfinished = [j \in JobIds |-> NotFinished]
    /\ jresp = NoResponse

\* ocr_async: expired jobs are dropped; a bad path is answered with an
\* error, otherwise a job is registered under a fresh id and its task
\* started.
OcrAsync ==
    \E valid \in BOOLEAN :
        /\ valid => jnext <= NumJobs
        /\ LET cleaned == CleanupExpiredJobs(jobs, jnow)
           IN  IF valid
                 THEN /\ jobs' = [cleaned EXCEPT ![jnext] = JobState(jnow)]
                      /\ jnext' = jnext + 1
                      /\ jresp' = [tool |-> "ocr_async", kind |-> "started",
                                   job |-> jnext, at |-> jnow]
                 ELSE /\ jobs' = cleaned
                      /\ UNCHANGED jnext
                      /\ jresp' = [tool |-> "ocr_async", kind |-> "error",
                                   job |-> 0, at |-> jnow]
        /\ UNCHANGED <<jnow, jfinished>>
        /\ UNCHANGED notJobs

\* The task of a job ends.
RunJobEnds(j) ==
    /\ jobs[j] # NoJob
    /\ jobs[j].status = "running"
    /\ \E outcome \in RunOutcomes :
          jobs' = [jobs EXCEPT ![j] = RunJob(jobs[j], outcome)]
    /\ jfinished' = [jfinished EXCEPT ![j] = [ended |-> TRUE, at |-> jnow]]
    /\ UNCHANGED <<jnow, jnext, jresp>>
    /\ UNCHANGED notJobs

\* ocr_status(job_id) for an id that ocr_async has handed out: expired jobs
\* are dropped, then the job is looked up.
OcrStatus(j) ==
    /\ j < jnext
    /\ LET cleaned == CleanupExpiredJobs(jobs, jnow)
       IN  /\ jobs' = cleaned
           /\ jresp' = IF cleaned[j] = NoJob
                         THEN [tool |-> "ocr_status", kind |-> "unknown",
                               job |-> j, at |-> jnow]
                         ELSE [tool |-> "ocr_status", kind |-> "state",
                               job |-> j, at |-> jnow,
                               status |-> cleaned[j].status,
                               result |-> cleaned[j].result,
                               error |-> cleaned[j].error]
    /\ UNCHANGED <<jnow, jnext, jfinished>>
    /\ UNCHANGED notJobs

\* Time passes.
ClockTick ==
    /\ jnow < MaxClockSteps * ClockStep
    /\ jnow' = jnow + ClockStep
    /\ UNCHANGED <<jobs, jnext, jfinished, jresp>>
    /\ UNCHANGED notJobs

JobsNext ==
    \/ OcrAsync
    \/ \E j \in JobIds : RunJobEnds(j)
    \/ \E j \in JobIds : OcrStatus(j)
    \/ ClockTick

InitJobs ==
    /\ CacheInit /\ FallbackInit /\ BatchIdle /\ PipeIdle /\ QualityIdle /\ InstanceIdle
    /\ FunctionsIdle /\ EventsIdle
    /\ JobsInit

SpecJobs == InitJobs /\ [][JobsNext]_vars

CacheNext ==
    \/ \E t \in Threads : GetModelsCall(t)
    \/ \E t \in Threads : GetModelsFastCheck(t)
    \/ \E t \in Threads : GetModelsFastRead(t)
    \/ \E t \in Threads : GetModelsLoad(t)
    \/ \E t \in Threads : GetModelsStoreCheck(t)
    \/ \E t \in Threads : GetModelsStoreRead(t)
    \/ Evict
    \/ Expire

InitCache == CacheInit /\ FallbackInit /\ BatchIdle /\ PipeIdle /\ QualityIdle /\ InstanceIdle
    /\ FunctionsIdle /\ EventsIdle /\ JobsIdle

SpecCache == InitCache /\ [][CacheNext]_vars

\* A single thread: its second membership test never finds another
\* thread's entry, so the read after it has nothing to do.
CacheSeqNext ==
    \/ GetModelsCall(SeqThread)
    \/ GetModelsFastCheck(SeqThread)
    \/ GetModelsFastRead(SeqThread)
    \/ GetModelsLoad(SeqThread)
    \/ GetModelsStoreCheck(SeqThread)
    \/ CallReturns(SeqThread)
    \/ EvictBetweenCalls
    \/ Expire
    \/ IsLoaded

InitCacheSeq == CacheInit /\ FallbackInit /\ BatchIdle /\ PipeIdle /\ QualityIdle /\ InstanceIdle
    /\ FunctionsIdle /\ EventsIdle /\ JobsIdle

SpecCacheSeq == InitCacheSeq /\ [][CacheSeqNext]_vars

InstanceNext ==
    \/ \E t \in Threads : GetInstanceCall(t)
    \/ \E t \in Threads : GetInstanceOuterCheck(t)
    \/ \E t \in Threads : GetInstanceAcquire(t)
    \/ \E t \in Threads : GetInstanceInner(t)
    \/ \E t \in Threads : GetInstanceReturn(t)

InitInstance ==
    CacheInit /\ FallbackInit /\ BatchIdle /\ PipeIdle /\ QualityIdle /\ InstanceInit
    /\ FunctionsIdle /\ EventsIdle /\ JobsIdle

SpecInstance == InitInstance /\ [][InstanceNext]_vars

FallbackNext == CallConvertWithFallback

InitFallback == CacheInit /\ FallbackInit /\ BatchIdle /\ PipeIdle /\ QualityIdle /\ InstanceIdle
    /\ FunctionsIdle /\ EventsIdle /\ JobsIdle

SpecFallback == InitFallback /\ [][FallbackNext]_vars

BatchNext ==
    \/ DoCollect
    \/ DoSplit
    \/ DoCombine
    \/ DoSubBatch
    \/ PostPhase

InitBatch == CacheInit /\ FallbackInit /\ BatchInit /\ PipeIdle /\ QualityIdle /\ InstanceIdle
    /\ FunctionsIdle /\ EventsIdle /\ JobsIdle

SpecBatch == InitBatch /\ [][BatchNext]_vars

PipeNext ==
    \/ \E f \in PipeFiles : WorkerFinish(f)
    \/ \E f \in PipeFiles : CollectResult(f)
    \/ Phase1Done
    \/ CombinePages
    \/ SuryaLoadModels
    \/ SuryaBatchBegin
    \/ SuryaBatchEnd
    \/ SuryaReturn
    \/ ReturnResults
    \/ Interrupt
    \/ InterruptPropagates

InitPipeline == CacheInit /\ FallbackInit /\ BatchIdle /\ PipeInit /\ QualityIdle /\ InstanceIdle
    /\ FunctionsIdle /\ EventsIdle /\ JobsIdle

SpecPipeline == InitPipeline /\ [][PipeNext]_vars

FunctionsNext ==
    \/ CallComputeSafeBatchSize
    \/ CallSplitIntoBatches
    \/ CallSplitMarkdownByPages
    \/ CallConfigureSuryaBatchSizes
    \/ CallComputeEngineFromPages
    \/ CallDetectDevice
    \/ CallProcessSingle
    \/ CallMain
    \/ CallPostprocess
    \/ CallRunSuryaBatch

InitFunctions ==
    /\ CacheInit /\ FallbackInit /\ BatchIdle /\ PipeIdle /\ QualityIdle /\ InstanceIdle
    /\ EventsIdle /\ JobsIdle
    /\ fncall = NoFnCall
    /\ fnret = 0
    /\ environ \in [EnvVars -> {UnsetVar, UserValue}]

SpecFunctions == InitFunctions /\ [][FunctionsNext]_vars

EventsNext ==
    \/ StartPhase
    \/ \E f \in EventFiles : CompleteFile(f)
    \/ EndPhase

InitEvents ==
    /\ CacheInit /\ FallbackInit /\ BatchIdle /\ PipeIdle /\ QualityIdle /\ InstanceIdle
    /\ fncall = NoFnCall /\ fnret = 0 /\ environ = NoEnviron
    /\ EventsInit /\ JobsIdle

SpecEvents == InitEvents /\ [][EventsNext]_vars

QualityNext == CallAnalyze

InitQuality == CacheInit /\ FallbackInit /\ BatchIdle /\ PipeIdle /\ QualityInit /\ InstanceIdle
    /\ FunctionsIdle /\ EventsIdle /\ JobsIdle

SpecQuality == InitQuality /\ [][QualityNext]_vars

\* ------------------------------------------------------------------------
\* Properties
\* ------------------------------------------------------------------------
AllCallsReturned == \A t \in Threads : mpc[t] \in {"done", "raised"}

\* C3: when every thread has called get_models on the initially empty cache,
\* every load_models succeeded and no evict or TTL expiry removed an entry,
\* the cache holds exactly one model set, the first (and only) one stored,
\* and every caller returned that very model set.
C3_OneModelSetForAll ==
    (AllCallsReturned /\ ~disturbed /\ ~loadFailed) =>
        /\ Len(stored) = 1
        /\ cache = stored[1]
        /\ \A t \in Threads : mpc[t] = "done" /\ mret[t] = cache

\* Witness of C3: all callers are back, two of them loaded their own model
\* set, and the later of those loads was discarded for the cached one.
C3_Witness ==
    /\ AllCallsReturned /\ ~disturbed /\ ~loadFailed
    /\ \E t, u \in Threads :
          /\ t # u
          /\ mloaded[t] # NoEntry /\ mloaded[u] # NoEntry
          /\ mret[u] = mloaded[t] /\ mret[u] # mloaded[u]

\* ------------------------------------------------------------------------
\* Engine-B wrapper: the CPU fallback
\* ------------------------------------------------------------------------
FirstConversionFailed ==
    /\ fcalls > 0
    /\ fin.out1.kind = "raise"
    /\ fin.out1.class = "RuntimeError"

\* C4: when the converter fails with a RuntimeError on the supplied models
\* and strict_gpu is false, convert_pdf_with_fallback clears the GPU caches,
\* loads models on CPU and converts exactly once more; a successful retry
\* returns (text, true), a failed retry surfaces the retry's error, and
\* convert_pdf is never called more than twice.
C4_FallbackRetriesOnCpu ==
    (FirstConversionFailed /\ ~fin.strict_gpu) =>
        /\ fres.cacheClears = 1
        /\ fres.cpuLoads = 1
        /\ fres.convertCalls <= 2
        /\ fin.loadOut = "ok" =>
              /\ fres.convertCalls = 2
              /\ IF ConvertPdf(fin.out2).ok
                   THEN /\ fres.kind = "returned"
                        /\ fres.markdown = fin.out2.markdown
                        /\ fres.fallback
                   ELSE /\ fres.kind = "raised"
                        /\ fres.exc = ConvertPdf(fin.out2).exc

\* C5: when the converter fails with a RuntimeError and strict_gpu is true,
\* convert_pdf_with_fallback raises the SuryaError that reports the GPU
\* failure under strict_gpu, loads no CPU models and converts only once.
C5_StrictGpuSurfacesStructuredError ==
    (FirstConversionFailed /\ fin.strict_gpu) =>
        /\ fres.kind = "raised"
        /\ fres.exc = [class |-> "SuryaError", msg |-> "gpu_failed_strict_gpu"]
        /\ fres.cpuLoads = 0
        /\ fres.convertCalls = 1

\* ------------------------------------------------------------------------
\* Batch planner: mapping Engine-B output back
\* ------------------------------------------------------------------------
LastBatch == batches[lastCall.batch]

PageOf(pages, fp) == pages[fp.file][fp.page_number + 1]

\* C6: for every sub-batch of split_into_batches whose combined input
\* Engine-B converted, map_results_to_files ends without error and each page
\* of the sub-batch has the text part at its position in the sub-batch.
C6_EverySubBatchMapsItsParts ==
    lastCall.engine = "returned" =>
        LET parts == SplitMarkdownByPages(lastCall.blob, Len(LastBatch))
        IN  /\ lastCall.err = "none"
            /\ \A i \in 1..Len(LastBatch) :
                  PageOf(bpages, LastBatch[i]).text = parts[i]

\* C7: a page rescored by map_results_to_files has flagged equal to the
\* analyzer's verdict on its new text: score below the threshold or some
\* signal under its floor.
C7_FlaggedIsAnalyzerVerdict ==
    \A f \in BatchFiles : \A i \in 1..Len(bpages[f]) :
        LET p == bpages[f][i]
        IN  p.engine = "surya" =>
                p.flagged = (p.quality_score < bthreshold
                             \/ FloorFail(GarbledScore(p.text),
                                          DictionaryScore(p.text), NoConfidence))

\* C8: after Phase-1 page construction and any number of
\* map_results_to_files calls, a page is flagged exactly when its status is
\* FLAGGED.
C8_FlaggedIffStatusFlagged ==
    \A f \in BatchFiles : \A i \in 1..Len(bpages[f]) :
        bpages[f][i].flagged <=> (bpages[f][i].status = "flagged")

\* Witness of C8: a mapping call has just turned one flagged page into a
\* good one and left another one flagged, each with the matching status.
C8_Witness ==
    /\ lastCall.engine = "returned" /\ lastCall.err = "none"
    /\ \E i, j \in 1..Len(LastBatch) :
          LET p == PageOf(bpages, LastBatch[i])
              q == PageOf(bpages, LastBatch[j])
          IN  /\ PageOf(lastCall.before, LastBatch[i]).status = "flagged"
              /\ p.engine = "surya" /\ ~p.flagged /\ p.status = "good"
              /\ q.engine = "surya" /\ q.flagged /\ q.status = "flagged"

\* C9: a map_results_to_files call changes only the pages its FlaggedPage
\* records name: each of those ends with engine SURYA and the score of its
\* new text, every other page of every file is as it was, and no page list
\* changes its length or the order of its page numbers.
C9_OnlyNamedPagesChange ==
    lastCall.engine = "returned" =>
        LET named == {<<LastBatch[i].file, LastBatch[i].page_number>> :
                         i \in 1..Len(LastBatch)}
        IN  /\ \A f \in BatchFiles :
                  /\ Len(bpages[f]) = Len(lastCall.before[f])
                  /\ \A i \in 1..Len(bpages[f]) :
                        /\ bpages[f][i].page_number = lastCall.before[f][i].page_number
                        /\ <<f, i - 1>> \notin named =>
                              bpages[f][i] = lastCall.before[f][i]
            /\ \A i \in 1..Len(LastBatch) :
                  LET p == PageOf(bpages, LastBatch[i])
                  IN  /\ p.engine = "surya"
                      /\ p.quality_score =
                            Analyze(p.text, NoConfidence, bthreshold).score

\* ------------------------------------------------------------------------
\* Orchestrator: what run_pipeline returns and leaves on disk
\* ------------------------------------------------------------------------
ResultsFor(f) == {i \in 1..Len(results) : results[i].filename = f}

QueuedForSurya == {needs_surya[i] : i \in 1..Len(needs_surya)}

\* C1: when Engine-B raised in Phase-2 (building the combined input, loading
\* models or converting), run_pipeline has returned with every file that had
\* pages queued for Engine-B reported as success = true with its Phase-1
\* page scores, and the outputs of Phase-1 are unchanged on disk.
C1_EngineBFailureKeepsPhase1 ==
    (pstage = "returned" /\ p2.engineRaised) =>
        /\ disk = p1snap.disk
        /\ \A f \in QueuedForSurya : \A i \in ResultsFor(f) :
              /\ results[i].success
              /\ results[i].page_qualities = p1snap.results[i].page_qualities

\* C2: what run_pipeline returns holds exactly one result for every file
\* submitted to the pool, a failed one when the worker raised.
C2_OneResultPerFile ==
    pstage = "returned" =>
        \A f \in PipeFiles :
            /\ Cardinality(ResultsFor(f)) = 1
            /\ future[f].kind = "exception" =>
                  \A i \in ResultsFor(f) : ~results[i].success

\* A worker came back with a result and no exception escaped inside it.
WorkerCompleted(f) ==
    /\ wstate[f] # "running"
    /\ future[f].kind = "result"
    /\ ~future[f].raised

ExtractedAnalysis(f) == AnalyzePages(future[f].extracted, pcfg.threshold)

InputKeptUntouched(f) ==
    /\ disk[f].pdf = "input"
    /\ engineA[f] = 0
    /\ \A bp \in engineB : bp[1] # f

C11_TextlessPageIsFlagged ==
    \A f \in PipeFiles :
        WorkerCompleted(f) =>
            \A i \in 1..Len(future[f].extracted) :
                future[f].extracted[i] = <<>> =>
                    /\ ExtractedAnalysis(f)[i].flagged
                    /\ engineA[f] >= 1

\* ------------------------------------------------------------------------
\* Quality analyzer: the verdict of analyze()
\* ------------------------------------------------------------------------
Analyzed == qres # NoQualityResult

\* A text without a word: empty, or whitespace only.
Blank(text) == \A i \in 1..Len(text) : text[i] = "NL3"

\* C12: analyze() of an empty or whitespace-only text, without confidence
\* data and under the default threshold and floors, returns score 1.0 and
\* flagged = false.
C12_EmptyTextIsNeutral ==
    (Analyzed /\ Blank(qin.text) /\ ~qin.data.given
        /\ qin.threshold = DefaultThreshold) =>
        (qres.score = Scale /\ ~qres.flagged)

\* Witness of C12: analyze() has returned on a whitespace-only text.
C12_Witness ==
    /\ Analyzed /\ qin.text = <<"NL3">> /\ ~qin.data.given
    /\ qin.threshold = DefaultThreshold
    /\ qres.score = Scale /\ ~qres.flagged

\* C13: analyze() returns flagged = true exactly when the composite score it
\* returns (after the confidence short-circuits) is below the threshold or
\* the garbled, the dictionary or, if confidence data was given, the
\* confidence signal is below its floor.
C13_FlaggedIffBelowThresholdOrFloor ==
    Analyzed =>
        (qres.flagged <=>
            \/ qres.score < qin.threshold
            \/ GarbledScore(qin.text) < FloorGarbled
            \/ DictionaryScore(qin.text) < FloorDictionary
            \/ (qin.data.given /\ ScoreFromData(qin.data.words) < FloorConfidence))

\* Witness of C13: a text flagged by the dictionary floor alone, its score
\* lifted over the threshold by very high confidence.
C13_Witness ==
    /\ Analyzed /\ qres.flagged
    /\ qres.score >= qin.threshold
    /\ qin.data.given /\ ScoreFromData(qin.data.words) > 9500
    /\ GarbledScore(qin.text) >= FloorGarbled
    /\ DictionaryScore(qin.text) < FloorDictionary

\* ------------------------------------------------------------------------
\* Orchestrator: when Engine-B runs
\* ------------------------------------------------------------------------
EngineBStarted == p2.loads > 0 \/ p2.converting # {} \/ engineB # {}

\* C14: Engine-B loads models and converts only when every Phase-1 worker of
\* the run has finished and its result or failure has been collected, and
\* never more than one sub-batch is being converted.
C14_EngineBAfterPhase1 ==
    /\ EngineBStarted => \A f \in PipeFiles : wstate[f] = "collected"
    /\ Cardinality(p2.converting) <= 1

\* Witness of C14: the second sub-batch is being converted, the first one
\* converted before it, with every worker's result collected.
C14_Witness ==
    /\ p2.converting # {} /\ p2.done > 0 /\ p2.texts > 0
    /\ p2.loads = 1
    /\ \A f \in PipeFiles : wstate[f] = "collected"

\* C15: when Phase-1 left no flagged page in any file, Engine-B models are
\* never loaded and no page is converted by Engine-B.
C15_NoFlaggedNoEngineB ==
    (pstage # "phase1" /\ \A i \in 1..Len(results) : results[i].bad_pages = <<>>)
        => (p2.loads = 0 /\ p2.converting = {} /\ engineB = {})

\* Witness of C15: the run returned without Engine-B after Tesseract had
\* repaired every flagged page of a file.
C15_Witness ==
    /\ pstage = "returned"
    /\ \A i \in 1..Len(results) : results[i].bad_pages = <<>>
    /\ \E i \in 1..Len(results) : results[i].method = "tesseract"
    /\ p2.loads = 0 /\ engineB = {}

\* ------------------------------------------------------------------------
\* Model cache: loads, hits and is_loaded
\* ------------------------------------------------------------------------
CallOver(t) == mpc[t] \in {"done", "raised"}

\* C16: a get_models call of the single thread, with no expiry during the
\* call, invokes load_models exactly when the cache held no unexpired entry
\* as the call began; on a hit it returns the cached model set without
\* loading, whatever device was asked for; and is_loaded() answers true
\* exactly when an unexpired entry is present.
C16_LoadsIffNoLiveEntry ==
    /\ (CallOver(SeqThread) /\ ~mcall[SeqThread].struck) =>
          /\ mcall[SeqThread].loaded <=> ~mcall[SeqThread].had
          /\ mcall[SeqThread].had =>
                /\ mpc[SeqThread] = "done"
                /\ mret[SeqThread] = mcall[SeqThread].entry
    /\ islast.called => (islast.ret <=> islast.present)

\* Witness of C16: after an expiry and a reload, a call asking for "cpu"
\* was served the cached model set, which is on another device, without a
\* load, and is_loaded() has answered false on the expired cache.
C16_Witness ==
    /\ CallOver(SeqThread) /\ ~mcall[SeqThread].struck
    /\ mcall[SeqThread].had /\ ~mcall[SeqThread].loaded
    /\ marg[SeqThread] = "cpu" /\ mret[SeqThread].device # "cpu"
    /\ Len(stored) = 2 /\ loadCalls = 2
    /\ islast.called /\ ~islast.ret /\ loadTimeSet

C18_OneInstanceFixedTtl ==
    /\ Len(icreated) <= 1
    /\ \A i \in ireturned : i # NoInstance /\ i = icreated[1].instance
    /\ inst # NoInstance =>
          /\ inst = icreated[1].instance
          /\ inst.ttl = IF ienv = "valid" THEN EnvTtl ELSE icreated[1].arg

\* Witness of C18: all threads raced for the first call and each called
\* again; the instance has the creating call's TTL although some call
\* passed another one.
C18_Witness ==
    /\ \A t \in Threads : ipc[t] = "done" /\ icalls[t] = MaxInstanceCalls
    /\ Cardinality(ireturned) = 1
    /\ ienv = "invalid"
    /\ inst.ttl = icreated[1].arg
    /\ \E t \in Threads : iarg[t] # inst.ttl

\* ------------------------------------------------------------------------
\* Batch planner: collecting and combining
\* ------------------------------------------------------------------------
Collected == bpc # "phase1"

\* The (file, page number) pairs collect_flagged_pages has to report.
FlaggedWithPath ==
    {fn \in BatchFiles \X (0..(PagesPerFile - 1)) :
        /\ bhasPath[fn[1]]
        /\ \E i \in 1..PagesPerFile :
              /\ bpages[fn[1]][i].page_number = fn[2]
              /\ bpages[fn[1]][i].flagged}

\* C19: collect_flagged_pages returns one record for every flagged page of
\* every file with an input path and no other, files in the order met and
\* pages in page order within a file, batch_index being the record's place
\* in the list counted from 0.
C19_CollectedInOrderWithIndices ==
    (Collected /\ lastCall.batch = 0) =>
        /\ {<<flaggedPages[i].file, flaggedPages[i].page_number>> :
               i \in 1..Len(flaggedPages)} = FlaggedWithPath
        /\ Len(flaggedPages) = Cardinality(FlaggedWithPath)
        /\ \A i \in 1..Len(flaggedPages) :
              /\ flaggedPages[i].batch_index = i - 1
              /\ flaggedPages[i].input_path = flaggedPages[i].file
        /\ \A i, j \in 1..Len(flaggedPages) :
              i < j =>
                 \/ flaggedPages[i].file < flaggedPages[j].file
                 \/ /\ flaggedPages[i].file = flaggedPages[j].file
                    /\ flaggedPages[i].page_number < flaggedPages[j].page_number

\* Witness of C19: the first file has no input path and is skipped although
\* it has a flagged page; the second file's two flagged pages are 0 and 1.
C19_Witness ==
    /\ Collected /\ lastCall.batch = 0
    /\ ~bhasPath[1] /\ bhasPath[2]
    /\ \E i \in 1..Len(bpages[1]) : bpages[1][i].flagged
    /\ Len(flaggedPages) = 2
    /\ flaggedPages[1].file = 2 /\ flaggedPages[1].batch_index = 0
    /\ flaggedPages[2].file = 2 /\ flaggedPages[2].batch_index = 1

\* The record of a list that has exactly k records of smaller batch_index.
RankedRecords(fps, k) ==
    {i \in 1..Len(fps) :
        Cardinality({j \in 1..Len(fps) :
                        fps[j].batch_index < fps[i].batch_index}) = k}

\* C20: the combined input create_combined_pdf writes has one page per
\* record, in ascending batch_index order whatever the order of the list,
\* each page the source page of its record; for an empty list nothing is
\* written.
C20_CombinedInBatchIndexOrder ==
    bcomb.called =>
        /\ bcomb.given = <<>> => (~bcomb.out.written /\ ~bcomb.out.raised)
        /\ bcomb.out.written =>
              /\ Len(bcomb.out.pages) = Len(bcomb.given)
              /\ \A k \in 1..Len(bcomb.given) :
                    \A i \in RankedRecords(bcomb.given, k - 1) :
                        bcomb.out.pages[k] =
                            <<bcomb.given[i].input_path, bcomb.given[i].page_number>>

\* Witness of C20: a combined input of pages of two files was written from
\* a list passed in descending batch_index order.
C20_Witness ==
    /\ bcomb.called /\ bcomb.out.written
    /\ Len(bcomb.given) >= 3
    /\ \A i \in 1..(Len(bcomb.given) - 1) :
          bcomb.given[i].batch_index > bcomb.given[i + 1].batch_index
    /\ \E i, j \in 1..Len(bcomb.given) : bcomb.given[i].file # bcomb.given[j].file
    /\ bcomb.out.pages[1] = <<bcomb.given[Len(bcomb.given)].input_path,
                              bcomb.given[Len(bcomb.given)].page_number>>

\* The empty list was passed and nothing was written.
EmptyCombineMade == bcomb.called /\ bcomb.given = <<>> /\ ~bcomb.out.written

\* ------------------------------------------------------------------------
\* Batch planner: sizes and sub-batches
\* ------------------------------------------------------------------------
Called(fn) == fncall.fn = fn

\* floor(available_gb * 0.5 / 0.7) for a reading in tenths of a GB.
PagesByMemory(availTenths) ==
    CHOOSE q \in 0..availTenths : 14 * q <= availTenths /\ 14 * (q + 1) > availTenths

Clamp(x, lo, hi) == IF x < lo THEN lo ELSE IF x > hi THEN hi ELSE x

\* C23: compute_safe_batch_size returns 0 for 0 pages and, for n >= 1 pages
\* and any memory reading >= 0, a size between 1 and n: min(n, 32) on CPU and
\* clamp(floor(available_gb * 0.5 / 0.7), 1, min(n, 100)) on a GPU device.
C23_SafeBatchSize ==
    Called("compute_safe_batch_size") =>
        LET n == fncall.total_pages
        IN  /\ n = 0 => fnret = 0
            /\ n >= 1 =>
                  /\ fnret >= 1 /\ fnret <= n
                  /\ fncall.device = "cpu" => fnret = Min2(n, 32)
                  /\ fncall.device # "cpu" =>
                        fnret = Clamp(PagesByMemory(fncall.available), 1, Min2(n, 100))

\* Witness of C23: on a GPU with 0.7 GB free the memory allows no page and
\* the size is raised to 1; with 300 GB and 150 pages the cap of 100 binds.
C23_Witness ==
    /\ Called("compute_safe_batch_size")
    /\ fncall.device = "mps"
    /\ \/ fncall.available = 7 /\ fncall.total_pages = 50 /\ fnret = 1
       \/ fncall.available = 3000 /\ fncall.total_pages = 150 /\ fnret = 100

RECURSIVE Concatenation(_)
Concatenation(lists) ==
    IF lists = <<>> THEN <<>> ELSE Head(lists) \o Concatenation(Tail(lists))

\* C21: for n >= 1 flagged pages and k = compute_safe_batch_size(n, ...),
\* split_into_batches returns ceil(n/k) sub-batches of at most k records
\* whose concatenation is the input list, records unchanged; an empty list
\* gives no sub-batch.
C21_SplitCoversInput ==
    Called("split_into_batches") =>
        LET fps == fncall.flagged_pages
            n == Len(fps)
            k == ComputeSafeBatchSize(n, fncall.available, fncall.device)
        IN  /\ n = 0 => fnret = <<>>
            /\ n >= 1 =>
                  /\ Len(fnret) = (n + k - 1) \div k
                  /\ \A b \in 1..Len(fnret) : Len(fnret[b]) <= k
                  /\ Concatenation(fnret) = fps

\* Witness of C21: 50 pages on a GPU with 4.0 GB free give 25 sub-batches
\* of 2, the last holding batch_index 48 and 49.
C21_Witness ==
    /\ Called("split_into_batches")
    /\ Len(fncall.flagged_pages) = 50 /\ fncall.available = 40
    /\ fncall.device = "mps"
    /\ Len(fnret) = 25
    /\ fnret[25][1].batch_index = 48 /\ fnret[25][2].batch_index = 49

\* ------------------------------------------------------------------------
\* Batch planner: splitting Engine-B's output
\* ------------------------------------------------------------------------
\* What the three rules give for n pages: the first n parts of the split on
\* horizontal rules, else of the split on newline runs, else the whole text
\* and n - 1 empty strings.
PartsByRule(markdown, n) ==
    LET hr == SplitOn(markdown, "HR")
        nl == SplitOn(markdown, "NL3")
    IN  IF Len(hr) >= n THEN SubSeq(hr, 1, n)
        ELSE IF Len(nl) >= n THEN SubSeq(nl, 1, n)
        ELSE <<markdown>> \o [i \in 1..(n - 1) |-> <<>>]

\* C22 as stated: for every text and every n >= 0 the result is what the
\* three rules give for n.
C22_SplitFollowsRulesForEveryCount ==
    Called("split_markdown_by_pages") =>
        /\ Len(fnret) = fncall.page_count
        /\ fnret = PartsByRule(fncall.markdown, fncall.page_count)

\* C22, amended: split_markdown_by_pages returns exactly n strings; for
\* n >= 2 they are what the three rules give, for n = 1 the one string is
\* the whole text, separators included, and for n = 0 there is none.
C22_SplitFollowsRulesFromTwoPages ==
    Called("split_markdown_by_pages") =>
        LET n == fncall.page_count
        IN  /\ Len(fnret) = n
            /\ n >= 2 => fnret = PartsByRule(fncall.markdown, n)
            /\ n = 1 => fnret = <<fncall.markdown>>

\* Witness of C22: a one-page call keeps a text with a horizontal rule
\* whole, or a three-page call on a text with a single newline run falls
\* back to the whole text and two empty strings.
C22_Witness ==
    /\ Called("split_markdown_by_pages")
    /\ \/ /\ fncall.page_count = 1
          /\ \E i \in 1..Len(fncall.markdown) : fncall.markdown[i] = "HR"
          /\ fnret = <<fncall.markdown>>
       \/ /\ fncall.page_count = 3
          /\ fncall.markdown = <<"clean", "NL3", "clean">>
          /\ fnret = <<fncall.markdown, <<>>, <<>> >>

\* ------------------------------------------------------------------------
\* Batch planner: the Surya batch-size environment variables
\* ------------------------------------------------------------------------
\* The value a variable gets when the call finds it unset: the fixed pair
\* on CPU, on a GPU the tier below 16 GB, below 32 GB, or from 32 GB up.
ExpectedBatchSize(var, device, availTenths) ==
    LET rec == var = "RECOGNITION_BATCH_SIZE"
    IN  IF device = "cpu" THEN (IF rec THEN "32" ELSE "6")
        ELSE IF availTenths < 160 THEN (IF rec THEN "32" ELSE "16")
        ELSE IF availTenths < 320 THEN (IF rec THEN "64" ELSE "32")
        ELSE (IF rec THEN "128" ELSE "64")

\* C24: configure_surya_batch_sizes gives each of the two variables the
\* value of the device and memory tier only when it is not in the
\* environment; a value already there, put by the user or by an earlier
\* call, stays, and the mapping returned is what the environment holds.
C24_SetOnlyWhenAbsent ==
    Called("configure_surya_batch_sizes") =>
        /\ \A var \in EnvVars :
              /\ fncall.before[var] # UnsetVar => environ[var] = fncall.before[var]
              /\ fncall.before[var] = UnsetVar =>
                    environ[var] = ExpectedBatchSize(var, fncall.device, fncall.available)
              /\ fnret[var] = environ[var]
        /\ DOMAIN fnret = EnvVars

\* Witness of C24: a call for a GPU with 32 GB finds the recognition size
\* an earlier CPU call has set and the user's detector size, and leaves
\* both as they are.
C24_Witness ==
    /\ Called("configure_surya_batch_sizes")
    /\ fncall.device = "mps" /\ fncall.available = 320
    /\ fncall.before = [RECOGNITION_BATCH_SIZE |-> "32", DETECTOR_BATCH_SIZE |-> UserValue]
    /\ environ = fncall.before
    /\ fnret.RECOGNITION_BATCH_SIZE = "32" /\ fnret.DETECTOR_BATCH_SIZE = UserValue

\* ------------------------------------------------------------------------
\* Result types: the rolled-up engine
\* ------------------------------------------------------------------------
EnginesOf(pages) == {pages[i].engine : i \in 1..Len(pages)}

\* C25 as stated: the common engine when all pages have the same engine,
\* MIXED whenever the pages' engines are not all the same, NONE for an
\* empty list or pages that are all NONE.
C25_MixedWheneverEnginesDiffer ==
    Called("compute_engine_from_pages") =>
        LET all == EnginesOf(fncall.pages)
        IN  /\ all = {} => fnret = "none"
            /\ \A e \in Engines : all = {e} => fnret = e
            /\ Cardinality(all) >= 2 => fnret = "mixed"

\* C25, amended: pages whose engine is NONE are left out; the result is the
\* common engine of the others, MIXED when the others have two or more
\* engines, and NONE when there are no others.
C25_MixedWhenUsedEnginesDiffer ==
    Called("compute_engine_from_pages") =>
        LET used == EnginesOf(fncall.pages) \ {"none"}
        IN  /\ used = {} => fnret = "none"
            /\ \A e \in Engines : used = {e} => fnret = e
            /\ Cardinality(used) >= 2 => fnret = "mixed"

\* Witness of C25: a Tesseract page next to a NONE page rolls up to
\* TESSERACT.
C25_Witness ==
    /\ Called("compute_engine_from_pages")
    /\ EnginesOf(fncall.pages) = {"tesseract", "none"}
    /\ fnret = "tesseract"

\* ------------------------------------------------------------------------
\* Device selection
\* ------------------------------------------------------------------------
\* A GPU candidate is available / passes the test tensor allocation.
CandidateAvailable(hw, d) ==
    IF d = "cuda" THEN hw.cuda_available ELSE hw.mps_built /\ hw.mps_available

CandidatePasses(hw, d) ==
    CandidateAvailable(hw, d) /\ (IF d = "cuda" THEN hw.cuda_ok ELSE hw.mps_ok)

\* The candidates of higher priority than a device.
HigherPriority(d) ==
    IF d = "cpu" THEN {"cuda", "mps"} ELSE IF d = "mps" THEN {"cuda"} ELSE {}

\* C28: detect_device returns the first of CUDA, MPS, CPU that is available
\* and passes the test allocation, skipping a candidate that fails; the
\* device returned is validated, CPU is returned when both GPU candidates
\* are unavailable or fail, and fallback_from is set only to a
\* higher-priority device that was available and failed validation.
C28_FirstValidatedDevice ==
    Called("detect_device") =>
        LET hw == fncall.hw
        IN  /\ fnret.device_type =
                  IF CandidatePasses(hw, "cuda") THEN "cuda"
                  ELSE IF CandidatePasses(hw, "mps") THEN "mps"
                  ELSE "cpu"
            /\ fnret.validated
            /\ fnret.fallback_from # NoDevice =>
                  /\ fnret.fallback_from \in HigherPriority(fnret.device_type)
                  /\ CandidateAvailable(hw, fnret.fallback_from)
                  /\ ~CandidatePasses(hw, fnret.fallback_from)

\* Witness of C28: CUDA is available but its allocation fails, MPS passes:
\* MPS is returned with fallback_from = CUDA; or both GPUs fail and CPU is
\* returned.
C28_Witness ==
    /\ Called("detect_device")
    /\ fncall.hw.cuda_available /\ ~fncall.hw.cuda_ok
    /\ \/ /\ CandidatePasses(fncall.hw, "mps")
          /\ fnret = DeviceInfo("mps", "cuda")
       \/ /\ fncall.hw.mps_available /\ ~fncall.hw.mps_ok
          /\ fnret = DeviceInfo("cpu", "cuda")

\* ------------------------------------------------------------------------
\* Batch planner: the roll-ups after Phase-2
\* ------------------------------------------------------------------------
Phase2Complete == bpc = "final"

\* Pages of a file that Engine-B output was mapped to.
RescoredPages(f) == {i \in 1..Len(bpages[f]) : bpages[f][i].engine = "surya"}

Cancelled == pstage \in {"interrupted", "raised"}

\* C29: a run cancelled while Phase-1 work is in flight ends by returning
\* a partial result that holds the results collected so far.
C29_CancelReturnsPartialResult ==
    (Cancelled /\ pstage \in {"returned", "raised"}) => pstage = "returned"

\* A cancelled run has ended without a result although a file's result had
\* been collected before the interrupt.
C29_CollectedResultsLost ==
    /\ pstage = "raised"
    /\ results # <<>>

\* ------------------------------------------------------------------------
\* Progress reporting
\* ------------------------------------------------------------------------
EventPhases == {"tesseract", "surya"}

PhaseEventAt(i, phase, status) ==
    elog[i].kind = "phase" /\ elog[i].phase = phase /\ elog[i].status = status

ProgressAt(i, phase) == elog[i].kind = "progress" /\ elog[i].phase = phase

EngineAFailed ==
    /\ Called("_process_single")
    /\ fnret.tesseract = 1
    /\ fncall.env.tess # "ok"

\* C31: when Engine-A fails on a file (missing dependency, non-zero exit or
\* timeout), the worker returns a failed result for that file whose error
\* field is Engine-A's own error message.
C31_EngineAErrorPreserved ==
    EngineAFailed =>
        /\ ~fnret.result.success
        /\ fnret.result.error = TesseractResultError(fncall.env.tess)

\* C32: every per-file result that run_pipeline returns has a non-empty
\* error string when success is false and an output path when success is
\* true.
C32_FailedHasErrorSucceededHasOutput ==
    pstage = "returned" =>
        \A i \in 1..Len(results) :
            /\ ~results[i].success =>
                  (results[i].error # "none" /\ results[i].error # "")
            /\ results[i].success => results[i].has_output

\* ------------------------------------------------------------------------
\* Command line: exit status
\* ------------------------------------------------------------------------
\* The run stopped on an unknown language code or a failed environment check.
ConfigurationFailure(inp) ==
    \/ ResolveLanguages(inp.codes).raised
    \/ ValidateEnvironment(inp.host, ResolveLanguages(inp.codes).langs) # {}

\* The pipeline ran to the end and returned its BatchResult.
BatchReturned(inp) ==
    /\ ~ConfigurationFailure(inp)
    /\ inp.pdfs
    /\ inp.run.kind = "batch"

\* C33: the CLI exits with 0 when no file errored, with 1 when at least one
\* file errored, and with 2 or more when it stops on an environment or
\* configuration failure (missing binary or language pack, unknown language).
C33_ExitCodes ==
    Called("main") =>
        /\ (BatchReturned(fncall.inp) /\ fncall.inp.run.error_count = 0) => fnret = 0
        /\ (BatchReturned(fncall.inp) /\ fncall.inp.run.error_count > 0) => fnret = 1
        /\ ConfigurationFailure(fncall.inp) => fnret >= 2

\* ------------------------------------------------------------------------
\* Phase-2 text write-back
\* ------------------------------------------------------------------------
\* The text Engine-B gives for a page: marked by its origin, so that it
\* differs from every text Phase-1 can have written.
EngineBText == <<"surya">>

\* run_surya_batch came back with a text for each page of the combined
\* input, every page of which went through the converter.
Phase2Succeeded ==
    /\ p2.surya = "texts"
    /\ p2.texts = Len(p2.all_bad_pages)
    /\ engineB = {p2.all_bad_pages[i] : i \in 1..Len(p2.all_bad_pages)}

\* C34: after Phase-2 succeeded, the final text of every file holds the
\* Engine-B text of each of its pages that Engine-B processed, in place of
\* that page's Phase-1 text, and the Phase-1 text of its other pages.
C34_EngineBTextWrittenBack ==
    (pstage = "returned" /\ Phase2Succeeded) =>
        \A f \in PipeFiles :
            /\ disk[f].has_txt = p1snap.disk[f].has_txt
            /\ Len(disk[f].txt) = Len(p1snap.disk[f].txt)
            /\ \A i \in 1..Len(disk[f].txt) :
                  disk[f].txt[i] = IF <<f, i - 1>> \in engineB
                                     THEN EngineBText
                                     ELSE p1snap.disk[f].txt[i]

\* ------------------------------------------------------------------------
\* Post-processor
\* ------------------------------------------------------------------------
\* C35: for every text t, postprocess(postprocess(t)) == postprocess(t).
C35_PostprocessIdempotent ==
    Called("postprocess") => Postprocess(fnret) = fnret

\* ------------------------------------------------------------------------
\* Async jobs
\* ------------------------------------------------------------------------
Started(j) == j < jnext

\* The job has not ended, or ended no more than an hour before `at`.
WithinRetention(j, at) ==
    ~jfinished[j].ended \/ at - jfinished[j].at <= JobTtlSeconds

\* C36: a job started with ocr_async stays retrievable through ocr_status,
\* with its status and its result or error, until one hour after it
\* completed or failed, however long it ran: it is in the registry for that
\* long, and an ocr_status call made in that time is answered with its state.
C36_RetrievableForAnHourAfterTheEnd ==
    /\ \A j \in JobIds :
          (Started(j) /\ WithinRetention(j, jnow)) => jobs[j] # NoJob
    /\ (jresp.tool = "ocr_status" /\ WithinRetention(jresp.job, jresp.at)) =>
          jresp.kind = "state"

\* A job that ran for longer than an hour has ended, and the first
\* ocr_status call after its end, made at once, finds it gone.
C36_LongJobLostAtOnce ==
    \E j \in JobIds :
        /\ jfinished[j].ended
        /\ jnow = jfinished[j].at
        /\ jresp = [tool |-> "ocr_status", kind |-> "unknown", job |-> j, at |-> jnow]

JobInvariant(job) ==
    /\ job.status \in {"running", "completed", "failed"}
    /\ job.result # "None" <=> job.status = "completed"
    /\ job.error # "None" <=> job.status = "failed"

JobStep(j) ==
    /\ (jobs[j] # NoJob /\ jobs[j].status = "running") => jobs'[j] # NoJob
    /\ (jobs[j] # NoJob /\ jobs'[j] # NoJob) =>
          /\ JobInvariant(jobs[j]) /\ JobInvariant(jobs'[j])
          /\ \/ jobs'[j].status = jobs[j].status
             \/ /\ jobs[j].status = "running"
                /\ jobs'[j].status \in {"completed", "failed"}
    /\ (jobs[j] = NoJob /\ jobs'[j] # NoJob) => jobs'[j].status = "running"

\* C40: the status of a job changes at most once, from running to completed
\* or from running to failed, and never leaves a terminal state; result is
\* set exactly when the status is completed and error exactly when it is
\* failed; and cleanup never removes a job whose status is running.
C40_JobLifecycle == [][\A j \in JobIds : JobStep(j)]_vars

\* Witness of C40: one job has ended and been removed by cleanup, while a
\* job older than the TTL is still running and has just been reported by
\* ocr_status, whose cleanup left it in place.
C40_Witness ==
    \E j, k \in JobIds :
        /\ Started(j) /\ jobs[j] = NoJob
        /\ jobs[k] # NoJob /\ jobs[k].status = "running"
        /\ jnow - jobs[k].created_at > JobTtlSeconds
        /\ jresp = [tool |-> "ocr_status", kind |-> "state", job |-> k, at |-> jnow,
                    status |-> "running", result |-> "None", error |-> "None"]

\* ------------------------------------------------------------------------
\* Engine-B batch conversion
\* ------------------------------------------------------------------------
\* C37: whenever run_surya_batch returns a list, the list has exactly one
\* text per page of the combined PDF, in page order: the text at index i is
\* that of the i-th page; also when a batch cannot be extracted or yields no
\* per-page text.
C37_OneTextPerPageInOrder ==
    (Called("run_surya_batch") /\ fnret.returned = "list") =>
        /\ Len(fnret.texts) = fncall.total_pages
        /\ \A i \in 1..Len(fnret.texts) : fnret.texts[i] = PageText(i - 1)

\* ------------------------------------------------------------------------
\* Model cache under expiry and eviction
\* ------------------------------------------------------------------------
\* The load_models call of thread t's get_models raised (each thread makes
\* one call).
OwnLoadRaised(t) == mcall[t].loaded /\ mloaded[t] = NoEntry

\* C38: get_models returns a model set whenever load_models succeeds: under
\* no interleaving of TTL expiry, evict and concurrent calls does it raise
\* for another reason, in particular not when the entry expires between
\* the presence check and the read made under the lock.
C38_RaisesOnlyWhenLoadRaises ==
    \A t \in Threads : mpc[t] = "raised" => OwnLoadRaised(t)

\* A get_models call has raised although no load_models call ever failed.
C38_RaisedWithoutLoadFailure ==
    \E t \in Threads : mpc[t] = "raised" /\ ~loadFailed

\* C39: once evict() has returned, is_loaded() stays false until a
\* get_models call that started after the evict stores its result: the
\* entry in the cache was not stored by a call whose load was in flight
\* when an evict ran.
C39_NoRepopulationAfterEvict ==
    \A t \in Threads :
        (InCache /\ mpc[t] = "done" /\ mcall[t].loaded /\ cache = mloaded[t])
            => ~mcall[t].evicted
====
